---- MODULE Spec2Model ----
(***************************************************************************)
(* EclipGuardX: the persisted inventory (Container, ContainerMetric,      *)
(* Alert, Scan tables), the inventory reconciler of the metrics collector  *)
(* and of GET /api/containers, the per-container sampler, the scan         *)
(* endpoint with its delayed completion callback, the alert endpoints,     *)
(* the retention sweep of POST /api/cleanup, the collection rounds of the  *)
(* metrics collector (start, stop, the interval callback, the weekly       *)
(* cleanup, the host sampler, the signal handlers), its pure functions     *)
(* (CPU usage, the unit parser, the stats line), the security score of     *)
(* the dashboard and of the security report, and the broadcast gateway of  *)
(* POST /api/metrics/broadcast.                                            *)
(*                                                                         *)
(* Every await of a handler is one step, so that handlers interleave the   *)
(* way the Node event loop lets them.  Opaque payload columns (name,       *)
(* image, ports, message, the metric values) carry no behaviour and are    *)
(* left out of the rows.  Time is counted in whole days; the clock of the  *)
(* interval is counted in units of 15 seconds.                             *)
(***************************************************************************)
EXTENDS Integers, FiniteSets, Sequences, TLC

\* ---- bounds ------------------------------------------------------------
MaxId == 3          \* rows ever created (ids are fresh, never reused)
MaxTime == 2        \* days the clock may advance
MaxDays == 2        \* largest retention horizon a sweep is called with
MaxJobs == 1        \* scan completion callbacks pending at one time
MaxSeed == 3        \* rows in the store when a sweep scenario starts
MaxHost == 2        \* SystemMetric rows ever created
MaxJiffies == 2     \* largest count in a /proc/stat bucket
MaxLen == 4         \* characters in a size token given to the unit parser
MaxTokens == 12     \* tokens in a docker stats line
MaxCritical == 11   \* unresolved CRITICAL alerts in the store when a score is computed
MaxHigh == 2        \* unresolved HIGH alerts in that store
MaxFailed == 2      \* failed scans in that store
MaxWeek == 3        \* collection intervals in the week of the weekly cleanup
MaxTimers == 2      \* active intervals at which start() is still called

RuntimeIds == {"a", "b"}                  \* ids the container runtime hands out
Reconcilers == {"collector", "api"}       \* metrics-collector.mjs, GET /api/containers
NULL == 0                                 \* SQL NULL in a reference column
Executions == {"e1", "e2"}                \* collection rounds that can be in flight at once
DaysArg == 0..MaxDays

VARIABLES
  now,         \* the clock, in days
  docker,      \* docker ps -a: runtime id -> "absent" | "running" | "stopped"
  containers,  \* Container rows [id, containerId, status]
  metrics,     \* ContainerMetric rows [id, containerId, timestamp]
  alerts,      \* Alert rows [id, severity, source, containerId, resolved, timestamp]
  scans,       \* Scan rows [id, containerId, status, timestamp]
  nextId,      \* next fresh primary key
  sync,        \* per reconciler: position, snapshot, containers still to upsert
  collect,     \* collectSingleContainerMetrics: position, the row it looked up, how it ended
  jobs,        \* pending scan completion callbacks
  sweep,       \* POST /api/cleanup: position, arguments, results
  mc,          \* the MetricsCollector object: running, intervalId; the host's /proc/stat
  cycle,       \* the collection rounds in flight: position, locals, what each has written
  host,        \* number of SystemMetric rows
  gateway,     \* POST /api/metrics/broadcast: the request, the response, what was emitted
  calc,        \* a pure function of the code under test: its argument, then its result
  proc         \* the node process of the collector: its intervals, its clock, stop() and signals

vars == <<now, docker, containers, metrics, alerts, scans, nextId, sync,
          collect, jobs, sweep, mc, cycle, host, gateway, calc, proc>>

\* ---- the store ---------------------------------------------------------

AllListRunning(d) == {[id |-> r, status |-> d[r]] : r \in {x \in RuntimeIds : d[x] = "running"}}

\* docker ps -a parsed into allList: one entry per container the runtime reports
AllList(d) == {[id |-> r, status |-> d[r]] : r \in {x \in RuntimeIds : d[x] # "absent"}}

RuntimeIdsOf(list) == {c.id : c \in list}
ContainerIds(table) == {r.containerId : r \in table}
InternalIds(table) == {r.id : r \in table}

FKNotEnforced(table, ref) == TRUE

\* foreign key ... REFERENCES "Container" ("id"): a write is accepted only if
\* the reference is NULL or names an existing Container row
FKOk(table, ref) == ref = NULL \/ \E r \in table : r.id = ref

ContainerAlwaysCreate(table, c, fresh) ==
  table \cup {[id |-> fresh, containerId |-> c.id, status |-> c.status]}

\* prisma.container.upsert({where: {containerId}, update, create})
ContainerUpsert(table, c, fresh) ==
  IF \E r \in table : r.containerId = c.id
    THEN {IF r.containerId = c.id THEN [r EXCEPT !.status = c.status] ELSE r : r \in table}
    ELSE table \cup {[id |-> fresh, containerId |-> c.id, status |-> c.status]}

ContainerDeleteManyIn(table, ids) ==
  IF ids # {} THEN {r \in table : r.containerId \notin ids} ELSE table

ContainerDeleteManyUnguarded(table, ids) == {r \in table : r.containerId \in ids}

\* prisma.container.deleteMany({where: {containerId: {notIn: ids}}}), guarded
\* by currentDockerIds.length > 0: the rows that stay
ContainerDeleteMany(table, ids) ==
  IF ids # {} THEN {r \in table : r.containerId \in ids} ELSE table

CascadeNone(rows, kept) == rows

\* ON DELETE CASCADE (ContainerMetric, Scan): rows of deleted containers go
CascadeDelete(rows, kept) == {m \in rows : m.containerId \in InternalIds(kept)}

\* ON DELETE SET NULL (Alert): rows of deleted containers lose the reference
CascadeSetNull(rows, kept) ==
  {IF a.containerId = NULL \/ a.containerId \in InternalIds(kept)
     THEN a ELSE [a EXCEPT !.containerId = NULL] : a \in rows}

\* ---- initial state -----------------------------------------------------

SyncIdle == [pc |-> "idle", allList |-> {}, todo |-> {}, repeat |-> FALSE, cascade |-> {}]
CollectIdle == [pc |-> "idle", container |-> NULL, outcome |-> "none"]
SweepIdle == [pc |-> "idle", dryRun |-> FALSE, cutoff |-> 0,
              metricsDeleted |-> 0, alertsDeleted |-> 0, scansDeleted |-> 0,
              errors |-> <<>>]

\* a collector that was constructed and not started, on a Linux host
McIdle == [running |-> FALSE, intervalId |-> FALSE, procStat |-> TRUE]
\* a round that has not begun; synced, hostRow, found, rows and fetchThrew
\* record what the round has done so far, tried, valid and rejected the
\* containers it has called collectSingleContainerMetrics for, those whose
\* stats line was usable and those whose insert was turned down
CycleIdle == [pc |-> "none", kind |-> "none", allList |-> {}, todo |-> {},
              list |-> {}, cur |-> {}, container |-> NULL,
              synced |-> "none", hostRow |-> FALSE, found |-> {}, rows |-> {},
              fetchThrew |-> FALSE, tried |-> {}, valid |-> {}, rejected |-> {}]
\* no request in progress; socketUtils, metrics and containerId are the request
\* being served, status and emitted are what the handler answered and published
GatewayIdle == [pc |-> "idle", socketUtils |-> FALSE, metrics |-> FALSE,
                containerId |-> "", status |-> 0, emitted |-> {}]

\* no function is being applied
CalcIdle == [pc |-> "idle"]
\* a process that has installed no interval: timers counts the intervals that
\* are active, until the clock units before the interval elapses, phase the
\* clock units since the week of Date.now() % (7 days) began; stop is the
\* position of a stop() call, stopped whether a stop() has returned and
\* start() has not been called since; signal is the signal whose handler has
\* started, disconnected whether a prisma.$disconnect() has settled, exited
\* whether process.exit has been called
ProcIdle == [timers |-> 0, until |-> 0, phase |-> 0, stop |-> "none", stopped |-> FALSE,
             signal |-> "none", disconnected |-> FALSE, exited |-> FALSE]

\* an empty database, no container on the host, nothing in progress
Init ==
  /\ now = 0
  /\ docker = [r \in RuntimeIds |-> "absent"]
  /\ containers = {}
  /\ metrics = {}
  /\ alerts = {}
  /\ scans = {}
  /\ nextId = 1
  /\ sync = [p \in Reconcilers |-> SyncIdle]
  /\ collect = CollectIdle
  /\ jobs = {}
  /\ sweep = SweepIdle
  /\ mc = McIdle
  /\ cycle = [k \in Executions |-> CycleIdle]
  /\ host = 0
  /\ gateway = GatewayIdle
  /\ calc = CalcIdle
  /\ proc = ProcIdle

\* ---- the container runtime and the clock -------------------------------

\* a container is created, started, stopped or removed on the host
DockerChange(r, st) ==
  /\ docker[r] # st
  /\ docker' = [docker EXCEPT ![r] = st]
  /\ UNCHANGED <<now, containers, metrics, alerts, scans, nextId, sync, collect, jobs, sweep,
               mc, cycle, host, gateway, calc, proc>>

\* a day passes
Tick ==
  /\ now < MaxTime
  /\ now' = now + 1
  /\ UNCHANGED <<docker, containers, metrics, alerts, scans, nextId, sync, collect, jobs, sweep,
               mc, cycle, host, gateway, calc, proc>>

\* ---- inventory reconciler ----------------------------------------------

SyncResting(p) == sync[p].pc \in {"idle", "done", "failed"}

\* docker ps -a answered: allList and currentDockerIds are computed.
\* repeat notes that the previous run of p completed against the same list.
SyncFetch(p) ==
  /\ SyncResting(p)
  /\ sync' = [sync EXCEPT ![p] =
       [pc |-> "upsert", allList |-> AllList(docker), todo |-> AllList(docker),
        repeat |-> (sync[p].pc = "done" /\ sync[p].allList = AllList(docker)),
        cascade |-> {}]]
  /\ UNCHANGED <<now, docker, containers, metrics, alerts, scans, nextId, collect, jobs, sweep,
               mc, cycle, host, gateway, calc, proc>>

\* execAsync rejects (runtime unreachable): the catch logs, nothing is written
SyncFetchFail(p) ==
  /\ SyncResting(p)
  /\ sync[p].pc # "failed"
  /\ sync' = [sync EXCEPT ![p] =
       [pc |-> "failed", allList |-> {}, todo |-> {}, repeat |-> FALSE, cascade |-> {}]]
  /\ UNCHANGED <<now, docker, containers, metrics, alerts, scans, nextId, collect, jobs, sweep,
               mc, cycle, host, gateway, calc, proc>>

\* one iteration of the upsert loop
SyncUpsert(p) ==
  /\ sync[p].pc = "upsert"
  /\ \E c \in sync[p].todo :
       /\ (c.id \in ContainerIds(containers)) \/ nextId <= MaxId
       /\ containers' = ContainerUpsert(containers, c, nextId)
       /\ nextId' = IF c.id \in ContainerIds(containers) THEN nextId ELSE nextId + 1
       /\ sync' = [sync EXCEPT ![p].todo = @ \ {c}]
  /\ UNCHANGED <<now, docker, metrics, alerts, scans, collect, jobs, sweep,
               mc, cycle, host, gateway, calc, proc>>

\* after the loop: the guarded deleteMany with the store's cascades, then return.
\* cascade notes which dependent rows the deleted containers had.
SyncDelete(p) ==
  /\ sync[p].pc = "upsert"
  /\ sync[p].todo = {}
  /\ LET kept == ContainerDeleteMany(containers, RuntimeIdsOf(sync[p].allList))
     IN /\ containers' = kept
        /\ metrics' = CascadeDelete(metrics, kept)
        /\ scans' = CascadeDelete(scans, kept)
        /\ alerts' = CascadeSetNull(alerts, kept)
        /\ sync' = [sync EXCEPT ![p].pc = "done",
                                 ![p].cascade =
                                   {x.id : x \in {y \in metrics \cup scans \cup alerts :
                                      y.containerId \in InternalIds(containers \ kept)}}]
  /\ UNCHANGED <<now, docker, nextId, collect, jobs, sweep,
               mc, cycle, host, gateway, calc, proc>>

\* ---- per-container sampler ---------------------------------------------

\* prisma.container.findUnique({where: {containerId}}); a miss returns at once
\* and leaves nothing behind
CollectLookup(rid) ==
  /\ collect.pc = "idle"
  /\ \E r \in containers :
       /\ r.containerId = rid
       /\ collect' = [pc |-> "stats", container |-> r.id, outcome |-> "none"]
  /\ UNCHANGED <<now, docker, containers, metrics, alerts, scans, nextId, sync, jobs, sweep,
               mc, cycle, host, gateway, calc, proc>>

\* docker stats gave nothing usable (empty output, short line, or it threw)
CollectNoStats ==
  /\ collect.pc = "stats"
  /\ collect' = [CollectIdle EXCEPT !.outcome = "nostats"]
  /\ UNCHANGED <<now, docker, containers, metrics, alerts, scans, nextId, sync, jobs, sweep,
               mc, cycle, host, gateway, calc, proc>>

\* prisma.containerMetric.create with the looked-up internal id; a foreign
\* key violation throws into the catch and nothing is stored
CollectStore ==
  /\ collect.pc = "stats"
  /\ FKOk(containers, collect.container) => nextId <= MaxId
  /\ IF FKOk(containers, collect.container)
       THEN /\ metrics' = metrics \cup
                 {[id |-> nextId, containerId |-> collect.container, timestamp |-> now]}
            /\ nextId' = nextId + 1
            /\ collect' = [CollectIdle EXCEPT !.outcome = "stored"]
       ELSE /\ UNCHANGED <<metrics, nextId>>
            /\ collect' = [CollectIdle EXCEPT !.outcome = "rejected"]
  /\ UNCHANGED <<now, docker, containers, alerts, scans, sync, jobs, sweep,
               mc, cycle, host, gateway, calc, proc>>

\* ---- scans and the alerts derived from them ----------------------------

\* the findings of mockResult, by severity, in the order the loop visits them
MockResult(scanType) ==
  CASE scanType = "trivy" -> <<"HIGH", "MEDIUM">>
    [] scanType = "yara" -> <<"HIGH">>

AlertWorthyCriticalOnly(severity) == severity = "CRITICAL"

\* vuln.severity === 'HIGH' || vuln.severity === 'CRITICAL'
AlertWorthy(severity) == severity = "HIGH" \/ severity = "CRITICAL"

\* the loop runs without awaiting over the findings that make no alert: what
\* is left of the findings when it reaches the next db.alert.create
RECURSIVE SkipToAlert(_)
SkipToAlert(findings) ==
  IF findings = <<>> \/ AlertWorthy(Head(findings))
    THEN findings
    ELSE SkipToAlert(Tail(findings))

\* db.scan.update({where: {id}, data: {status}}): throws when the row is gone
ScanSetStatus(rows, id, st) ==
  {IF s.id = id THEN [s EXCEPT !.status = st] ELSE s : s \in rows}

\* POST /api/scans: the row is created running and the callback is armed.
\* A request naming no existing container is rejected by the store (500).
ScanCreate(ref, type) ==
  /\ Cardinality(jobs) < MaxJobs
  /\ nextId <= MaxId
  /\ FKOk(containers, ref) /\ ref # NULL
  /\ scans' = scans \cup
       {[id |-> nextId, containerId |-> ref, status |-> "running", timestamp |-> now]}
  /\ jobs' = jobs \cup {[scan |-> nextId, containerId |-> ref, scanType |-> type,
                         pc |-> "update", todo |-> <<>>, made |-> 0]}
  /\ nextId' = nextId + 1
  /\ UNCHANGED <<now, docker, containers, metrics, alerts, sync, collect, sweep,
               mc, cycle, host, gateway, calc, proc>>

\* the callback, 5 s later: an unknown scan type throws, the catch marks the
\* scan failed; trivy and yara write the result, and when the write throws
\* (the row is gone, or the store fails) the catch marks the scan failed.
\* After the write the loop over the findings runs up to its first create.
ScanComplete(j, threw) ==
  /\ j \in jobs
  /\ j.pc = "update"
  /\ IF j.scanType \notin {"trivy", "yara"} \/ threw \/ ~(\E s \in scans : s.id = j.scan)
       THEN /\ scans' = ScanSetStatus(scans, j.scan, "failed")
            /\ jobs' = jobs \ {j}
       ELSE /\ scans' = ScanSetStatus(scans, j.scan, "completed")
            /\ LET todo == SkipToAlert(MockResult(j.scanType))
               IN jobs' = (jobs \ {j}) \cup
                    (IF todo = <<>> THEN {} ELSE {[j EXCEPT !.pc = "alerts", !.todo = todo]})
  /\ UNCHANGED <<now, docker, containers, metrics, alerts, nextId, sync, collect, sweep,
               mc, cycle, host, gateway, calc, proc>>

\* db.alert.create for the finding the loop stands at, then on to the next
\* create or the end of the callback; a create that throws (a foreign key
\* violation, or the store fails) ends in the catch, which marks the scan failed
ScanAlert(j, threw) ==
  /\ j \in jobs
  /\ j.pc = "alerts"
  /\ (FKOk(containers, j.containerId) /\ ~threw) => nextId <= MaxId
  /\ IF FKOk(containers, j.containerId) /\ ~threw
       THEN /\ alerts' = alerts \cup
                 {[id |-> nextId, severity |-> Head(j.todo), source |-> j.scanType,
                   containerId |-> j.containerId, resolved |-> FALSE, timestamp |-> now]}
            /\ nextId' = nextId + 1
            /\ scans' = scans
            /\ LET todo == SkipToAlert(Tail(j.todo))
               IN jobs' = (jobs \ {j}) \cup
                    (IF todo = <<>> THEN {}
                     ELSE {[j EXCEPT !.todo = todo, !.made = @ + 1]})
       ELSE /\ scans' = ScanSetStatus(scans, j.scan, "failed")
            /\ jobs' = jobs \ {j}
            /\ UNCHANGED <<alerts, nextId>>
  /\ UNCHANGED <<now, docker, containers, metrics, sync, collect, sweep,
               mc, cycle, host, gateway, calc, proc>>

\* POST /api/alerts with a container reference or none
AlertCreate(ref, severity, source) ==
  /\ nextId <= MaxId
  /\ FKOk(containers, ref)
  /\ alerts' = alerts \cup
       {[id |-> nextId, severity |-> severity, source |-> source,
         containerId |-> ref, resolved |-> FALSE, timestamp |-> now]}
  /\ nextId' = nextId + 1
  /\ UNCHANGED <<now, docker, containers, metrics, scans, sync, collect, jobs, sweep,
               mc, cycle, host, gateway, calc, proc>>

\* PATCH /api/alerts: action resolve or reopen
AlertSetResolved(a, flag) ==
  /\ a \in alerts
  /\ a.resolved # flag
  /\ alerts' = (alerts \ {a}) \cup {[a EXCEPT !.resolved = flag]}
  /\ UNCHANGED <<now, docker, containers, metrics, scans, nextId, sync, collect, jobs, sweep,
               mc, cycle, host, gateway, calc, proc>>

\* ---- retention sweep (POST /api/cleanup) -------------------------------

AlertsDeleteManyAnyState(rows, cutoff) == {a \in rows : ~(a.timestamp < cutoff)}
ScansDeleteManyAnyStatus(rows, cutoff) == {s \in rows : ~(s.timestamp < cutoff)}

\* deleteMany({where: {timestamp: {lt: cutoffDate}, ...}}): the rows that stay
MetricsDeleteMany(rows, cutoff) == {m \in rows : ~(m.timestamp < cutoff)}
AlertsDeleteMany(rows, cutoff) == {a \in rows : ~(a.timestamp < cutoff /\ a.resolved)}
ScansDeleteMany(rows, cutoff) == {s \in rows : ~(s.timestamp < cutoff /\ s.status = "completed")}

AlertsCountAnyState(rows, cutoff) == Cardinality({a \in rows : a.timestamp < cutoff})

\* count({where: ...}) of the dry-run branch
MetricsCount(rows, cutoff) == Cardinality({m \in rows : m.timestamp < cutoff})
AlertsCount(rows, cutoff) == Cardinality({a \in rows : a.timestamp < cutoff /\ a.resolved})
ScansCount(rows, cutoff) == Cardinality({s \in rows : s.timestamp < cutoff /\ s.status = "completed"})

SweepTableNoDryRun(dryRun, threw, rows, stay) == IF threw THEN rows ELSE stay

\* what one class's try block leaves in its table: the dry-run branch and a
\* statement that threw leave the rows, the delete branch leaves what stays
SweepTable(dryRun, threw, rows, stay) == IF dryRun \/ threw THEN rows ELSE stay

\* what the try block stores in results: nothing when it threw, else
\* count() in the dry-run branch and deleteMany's count in the other
SweepCount(dryRun, threw, old, rows, stay, counted) ==
  IF threw THEN old
  ELSE IF dryRun THEN counted ELSE Cardinality(rows) - Cardinality(stay)

SweepAfterAbort(class, threw) ==
  IF threw THEN "done"
  ELSE CASE class = "metrics" -> "alerts"
         [] class = "alerts" -> "scans"
         [] class = "scans" -> "done"

\* the catch of one class pushes its message; each class has its own try, so
\* the next class follows whether or not this one threw
SweepErrors(threw, errors, class) == IF threw THEN Append(errors, class) ELSE errors
SweepAfter(class, threw) ==
  CASE class = "metrics" -> "alerts"
    [] class = "alerts" -> "scans"
    [] class = "scans" -> "done"

\* the request is read: days and dryRun, cutoffDate = now - days, results zeroed
SweepStart(days, dryRun) ==
  /\ sweep.pc \in {"idle", "done"}
  /\ sweep' = [pc |-> "metrics", dryRun |-> dryRun, cutoff |-> now - days,
               metricsDeleted |-> 0, alertsDeleted |-> 0, scansDeleted |-> 0,
               errors |-> <<>>]
  /\ UNCHANGED <<now, docker, containers, metrics, alerts, scans, nextId, sync, collect, jobs,
               mc, cycle, host, gateway, calc, proc>>

\* first try block: container metrics
SweepMetrics(threw) ==
  /\ sweep.pc = "metrics"
  /\ LET stay == MetricsDeleteMany(metrics, sweep.cutoff)
     IN /\ metrics' = SweepTable(sweep.dryRun, threw, metrics, stay)
        /\ sweep' = [sweep EXCEPT
             !.metricsDeleted = SweepCount(sweep.dryRun, threw, @, metrics, stay,
                                           MetricsCount(metrics, sweep.cutoff)),
             !.errors = SweepErrors(threw, @, "metrics"),
             !.pc = SweepAfter("metrics", threw)]
  /\ UNCHANGED <<now, docker, containers, alerts, scans, nextId, sync, collect, jobs,
               mc, cycle, host, gateway, calc, proc>>

\* second try block: resolved alerts
SweepAlerts(threw) ==
  /\ sweep.pc = "alerts"
  /\ LET stay == AlertsDeleteMany(alerts, sweep.cutoff)
     IN /\ alerts' = SweepTable(sweep.dryRun, threw, alerts, stay)
        /\ sweep' = [sweep EXCEPT
             !.alertsDeleted = SweepCount(sweep.dryRun, threw, @, alerts, stay,
                                          AlertsCount(alerts, sweep.cutoff)),
             !.errors = SweepErrors(threw, @, "alerts"),
             !.pc = SweepAfter("alerts", threw)]
  /\ UNCHANGED <<now, docker, containers, metrics, scans, nextId, sync, collect, jobs,
               mc, cycle, host, gateway, calc, proc>>

\* third try block: completed scans; the response is sent after it
SweepScans(threw) ==
  /\ sweep.pc = "scans"
  /\ LET stay == ScansDeleteMany(scans, sweep.cutoff)
     IN /\ scans' = SweepTable(sweep.dryRun, threw, scans, stay)
        /\ sweep' = [sweep EXCEPT
             !.scansDeleted = SweepCount(sweep.dryRun, threw, @, scans, stay,
                                         ScansCount(scans, sweep.cutoff)),
             !.errors = SweepErrors(threw, @, "scans"),
             !.pc = SweepAfter("scans", threw)]
  /\ UNCHANGED <<now, docker, containers, metrics, alerts, nextId, sync, collect, jobs,
               mc, cycle, host, gateway, calc, proc>>

\* ---- the collector's rounds (start, the interval callback) --------------

\* cleanupOldMetrics(days = 7)
CleanupDays == 7

\* this.collectionInterval = 30 * 1000, in clock units of 15 seconds
CollectionInterval == 2

Free(k) == cycle[k].pc \in {"none", "done"}
InFlight(k) == ~Free(k)
\* the slot a new round takes
FreeSlot == IF Free("e1") THEN "e1" ELSE "e2"
Begin(kind) == [CycleIdle EXCEPT !.pc = "cpu", !.kind = kind]

\* start(): returns at once when already running; else sets running and
\* begins the eager round with collectSystemMetrics, up to getCPUUsage
Start ==
  /\ ~mc.running
  /\ Free(FreeSlot)
  /\ mc' = [mc EXCEPT !.running = TRUE]
  /\ cycle' = [cycle EXCEPT ![FreeSlot] = Begin("eager")]
  /\ proc' = [proc EXCEPT !.stopped = FALSE]
  /\ UNCHANGED <<now, docker, containers, metrics, alerts, scans, nextId, sync, collect,
                 jobs, sweep, host, gateway, calc>>

\* the interval elapses: setInterval calls the callback, whatever the
\* callbacks it called before are doing
TimerFire ==
  /\ proc.timers > 0
  /\ Free(FreeSlot)
  /\ cycle' = [cycle EXCEPT ![FreeSlot] = Begin("periodic")]
  /\ UNCHANGED <<now, docker, containers, metrics, alerts, scans, nextId, sync, collect,
                 jobs, sweep, mc, host, gateway, calc, proc>>

\* getCPUUsage: where /proc/stat cannot be read the first readFileSync throws
\* and the catch returns the load average estimate; where it can, the
\* function awaits Promise.all of the first snapshot and the timer promise
GetCPUUsage(k) ==
  /\ cycle[k].pc = "cpu"
  /\ cycle' = [cycle EXCEPT ![k].pc = IF mc.procStat THEN "snapshot" ELSE "df"]
  /\ UNCHANGED <<now, docker, containers, metrics, alerts, scans, nextId, sync, collect,
                 jobs, sweep, mc, host, gateway, calc, proc>>

\* one second later the timer callback reads /proc/stat again; its value goes
\* nowhere and resolve is not called, so the promise stays pending
GetCPUUsageTimer(k) ==
  /\ cycle[k].pc = "snapshot"
  /\ cycle' = [cycle EXCEPT ![k].pc = "pending"]
  /\ UNCHANGED <<now, docker, containers, metrics, alerts, scans, nextId, sync, collect,
                 jobs, sweep, mc, host, gateway, calc, proc>>

\* collectSystemMetrics: df; when it throws the outer catch logs and the
\* round goes on with collectContainerMetrics
CollectSystemDf(k, threw) ==
  /\ cycle[k].pc = "df"
  /\ cycle' = [cycle EXCEPT ![k].pc = IF threw THEN "sync" ELSE "systemCreate"]
  /\ UNCHANGED <<now, docker, containers, metrics, alerts, scans, nextId, sync, collect,
                 jobs, sweep, mc, host, gateway, calc, proc>>

\* prisma.systemMetric.create
CollectSystemCreate(k, threw) ==
  /\ cycle[k].pc = "systemCreate"
  /\ ~threw => host < MaxHost
  /\ host' = IF threw THEN host ELSE host + 1
  /\ cycle' = [cycle EXCEPT ![k].pc = IF threw THEN "sync" ELSE "systemFetch",
                            ![k].hostRow = ~threw]
  /\ UNCHANGED <<now, docker, containers, metrics, alerts, scans, nextId, sync, collect,
                 jobs, sweep, mc, gateway, calc, proc>>

FetchAfterAbort(threw, next) == IF threw THEN "return" ELSE next

\* await fetch(.../api/metrics/broadcast) in its own try: a fetch that throws
\* is logged and the caller goes on where it would have gone
FetchAfter(threw, next) == next

CollectSystemFetch(k, threw) ==
  /\ cycle[k].pc = "systemFetch"
  /\ cycle' = [cycle EXCEPT ![k].pc = FetchAfter(threw, "sync"),
                            ![k].fetchThrew = @ \/ threw]
  /\ UNCHANGED <<now, docker, containers, metrics, alerts, scans, nextId, sync, collect,
                 jobs, sweep, mc, host, gateway, calc, proc>>

ReconcileCatchAbort(next) == "return"

\* the catch of syncContainersToDatabase logs and the function returns to
\* collectContainerMetrics, which goes on
ReconcileCatch(next) == next

\* collectContainerMetrics calls syncContainersToDatabase: docker ps, docker
\* ps -a, allList; when a command throws the catch logs and the call returns
CycleSyncFetch(k, threw) ==
  /\ cycle[k].pc = "sync"
  /\ cycle' = [cycle EXCEPT ![k] =
       IF threw THEN [@ EXCEPT !.pc = ReconcileCatch("findMany"), !.synced = "failed"]
       ELSE [@ EXCEPT !.pc = "upsert", !.allList = AllList(docker), !.todo = AllList(docker)]]
  /\ UNCHANGED <<now, docker, containers, metrics, alerts, scans, nextId, sync, collect,
                 jobs, sweep, mc, host, gateway, calc, proc>>

\* one iteration of the upsert loop
CycleSyncUpsert(k) ==
  /\ cycle[k].pc = "upsert"
  /\ \E c \in cycle[k].todo :
       /\ (c.id \in ContainerIds(containers)) \/ nextId <= MaxId
       /\ containers' = ContainerUpsert(containers, c, nextId)
       /\ nextId' = IF c.id \in ContainerIds(containers) THEN nextId ELSE nextId + 1
       /\ cycle' = [cycle EXCEPT ![k].todo = @ \ {c}]
  /\ UNCHANGED <<now, docker, metrics, alerts, scans, sync, collect, jobs, sweep, mc, host,
                 gateway, calc, proc>>

\* the guarded deleteMany with the store's cascades; the call returns
CycleSyncDelete(k) ==
  /\ cycle[k].pc = "upsert"
  /\ cycle[k].todo = {}
  /\ LET kept == ContainerDeleteMany(containers, RuntimeIdsOf(cycle[k].allList))
     IN /\ containers' = kept
        /\ metrics' = CascadeDelete(metrics, kept)
        /\ scans' = CascadeDelete(scans, kept)
        /\ alerts' = CascadeSetNull(alerts, kept)
  /\ cycle' = [cycle EXCEPT ![k].pc = "findMany", ![k].synced = "done"]
  /\ UNCHANGED <<now, docker, nextId, sync, collect, jobs, sweep, mc, host, gateway, calc, proc>>

\* prisma.container.findMany({where: {status: 'running'}})
FindMany(table) == {r \in table : r.status = "running"}

\* runningContainers is read; with none the function returns
CycleFindMany(k) ==
  /\ cycle[k].pc = "findMany"
  /\ cycle' = [cycle EXCEPT ![k].found = FindMany(containers),
                            ![k].list = FindMany(containers),
                            ![k].pc = IF FindMany(containers) = {} THEN "return" ELSE "lookup"]
  /\ UNCHANGED <<now, docker, containers, metrics, alerts, scans, nextId, sync, collect,
                 jobs, sweep, mc, host, gateway, calc, proc>>

AfterSampleAbort(ok) == IF ok THEN "delay" ELSE "return"

\* collectSingleContainerMetrics catches what it throws and the loop body has
\* a try of its own: whatever became of one container, the loop goes on with
\* the pause and the next container
AfterSample(ok) == "delay"

\* the next element of runningContainers, in the order the rows were inserted
NextOf(list) == CHOOSE r \in list : \A q \in list : r.id <= q.id

\* collectSingleContainerMetrics(container.containerId): findUnique; a miss
\* logs and returns
CycleLookup(k) ==
  /\ cycle[k].pc = "lookup"
  /\ LET r == NextOf(cycle[k].list)
         hit == {c \in containers : c.containerId = r.containerId}
     IN cycle' = [cycle EXCEPT ![k].cur = {r},
                               ![k].tried = @ \cup {r},
                               ![k].container = IF hit = {} THEN NULL
                                                ELSE (CHOOSE c \in hit : TRUE).id,
                               ![k].pc = IF hit = {} THEN AfterSample(TRUE) ELSE "stats"]
  /\ UNCHANGED <<now, docker, containers, metrics, alerts, scans, nextId, sync, collect,
                 jobs, sweep, mc, host, gateway, calc, proc>>

\* docker stats: a line of at least 9 fields, or nothing usable (empty
\* output, a short line, the command threw)
CycleStats(k, usable) ==
  /\ cycle[k].pc = "stats"
  /\ cycle' = [cycle EXCEPT ![k].pc = IF usable THEN "store" ELSE AfterSample(FALSE),
                            ![k].valid = IF usable THEN @ \cup cycle[k].cur ELSE @]
  /\ UNCHANGED <<now, docker, containers, metrics, alerts, scans, nextId, sync, collect,
                 jobs, sweep, mc, host, gateway, calc, proc>>

\* prisma.containerMetric.create with the looked-up internal id; when it
\* throws (foreign key violation, store failure) the catch logs
CycleStore(k, threw) ==
  /\ cycle[k].pc = "store"
  /\ LET ok == FKOk(containers, cycle[k].container) /\ ~threw
         row == [id |-> nextId, containerId |-> cycle[k].container, timestamp |-> now]
     IN /\ ok => nextId <= MaxId
        /\ metrics' = IF ok THEN metrics \cup {row} ELSE metrics
        /\ nextId' = IF ok THEN nextId + 1 ELSE nextId
        /\ cycle' = [cycle EXCEPT ![k].pc = IF ok THEN "fetch" ELSE AfterSample(FALSE),
                                  ![k].rows = IF ok THEN @ \cup {row} ELSE @,
                                  ![k].rejected = IF ok THEN @ ELSE @ \cup cycle[k].cur]
  /\ UNCHANGED <<now, docker, containers, alerts, scans, sync, collect, jobs, sweep, mc,
                 host, gateway, calc, proc>>

\* the broadcast of the container sample
CycleFetch(k, threw) ==
  /\ cycle[k].pc = "fetch"
  /\ cycle' = [cycle EXCEPT ![k].pc = FetchAfter(threw, "delay"),
                            ![k].fetchThrew = @ \/ threw]
  /\ UNCHANGED <<now, docker, containers, metrics, alerts, scans, nextId, sync, collect,
                 jobs, sweep, mc, host, gateway, calc, proc>>

\* the 100 ms pause, then the next container or the end of the loop
CycleDelay(k) ==
  /\ cycle[k].pc = "delay"
  /\ cycle' = [cycle EXCEPT ![k].list = @ \ cycle[k].cur,
                            ![k].cur = {},
                            ![k].pc = IF cycle[k].list \ cycle[k].cur = {} THEN "return"
                                      ELSE "lookup"]
  /\ UNCHANGED <<now, docker, containers, metrics, alerts, scans, nextId, sync, collect,
                 jobs, sweep, mc, host, gateway, calc, proc>>

\* collectContainerMetrics has returned and its loop's notes end with it:
\* start() installs the interval; the interval callback goes on to the weekly
\* cleanup when Date.now() % (7 days) < collectionInterval
CycleReturn(k, weekly) ==
  /\ cycle[k].pc = "return"
  /\ mc' = IF cycle[k].kind = "eager" THEN [mc EXCEPT !.intervalId = TRUE] ELSE mc
  /\ proc' = IF cycle[k].kind = "eager"
               THEN [proc EXCEPT !.timers = @ + 1, !.until = CollectionInterval]
               ELSE proc
  /\ cycle' = [cycle EXCEPT ![k].pc =
                              IF cycle[k].kind = "periodic" /\ weekly THEN "cleanup" ELSE "done",
                            ![k].tried = {}, ![k].valid = {}, ![k].rejected = {}]
  /\ UNCHANGED <<now, docker, containers, metrics, alerts, scans, nextId, sync, collect,
                 jobs, sweep, host, gateway, calc>>

\* cleanupOldMetrics(): deleteMany of the metrics older than 7 days; a failure
\* is logged
CycleCleanup(k, threw) ==
  /\ cycle[k].pc = "cleanup"
  /\ metrics' = IF threw THEN metrics ELSE MetricsDeleteMany(metrics, now - CleanupDays)
  /\ cycle' = [cycle EXCEPT ![k].pc = "done"]
  /\ UNCHANGED <<now, docker, containers, alerts, scans, nextId, sync, collect, jobs,
                 sweep, mc, host, gateway, calc, proc>>

\* ---- specifications ----------------------------------------------------

\* the collector's reconciler against a host whose containers come, go, start
\* and stop
NextSync ==
  \/ \E r \in RuntimeIds, st \in {"absent", "running", "stopped"} : DockerChange(r, st)
  \/ SyncFetch("collector")
  \/ SyncFetchFail("collector")
  \/ SyncUpsert("collector")
  \/ SyncDelete("collector")

SpecSync == Init /\ [][NextSync]_vars

\* the collector's reconciler and sampler with the scan and alert endpoints,
\* against a host whose containers come and go
Next ==
  \/ \E r \in RuntimeIds, st \in {"absent", "running"} : DockerChange(r, st)
  \/ SyncFetch("collector")
  \/ SyncFetchFail("collector")
  \/ SyncUpsert("collector")
  \/ SyncDelete("collector")
  \/ \E r \in RuntimeIds : CollectLookup(r)
  \/ CollectNoStats
  \/ CollectStore
  \/ \E ref \in 1..MaxId, type \in {"trivy", "yara", "other"} : ScanCreate(ref, type)
  \/ \E j \in jobs, threw \in BOOLEAN : ScanComplete(j, threw)
  \/ \E j \in jobs, threw \in BOOLEAN : ScanAlert(j, threw)
  \/ \E ref \in 1..MaxId \cup {NULL} : AlertCreate(ref, "CRITICAL", "manual")

Spec == Init /\ [][Next]_vars

\* the collector started with --schedule against an empty database, on a
\* host with or without a readable /proc/stat, whose containers stay as they
\* are while it runs
InitCycle ==
  /\ now = 0
  /\ docker \in [RuntimeIds -> {"absent", "running", "stopped"}]
  /\ containers = {}
  /\ metrics = {}
  /\ alerts = {}
  /\ scans = {}
  /\ nextId = 1
  /\ sync = [p \in Reconcilers |-> SyncIdle]
  /\ collect = CollectIdle
  /\ jobs = {}
  /\ sweep = SweepIdle
  /\ mc \in {[McIdle EXCEPT !.procStat = b] : b \in BOOLEAN}
  /\ cycle = [k \in Executions |-> CycleIdle]
  /\ host = 0
  /\ gateway = GatewayIdle
  /\ calc = CalcIdle
  /\ proc = ProcIdle

CycleStep(k) ==
  \/ GetCPUUsage(k)
  \/ GetCPUUsageTimer(k)
  \/ \E threw \in BOOLEAN : CollectSystemDf(k, threw)
  \/ \E threw \in BOOLEAN : CollectSystemCreate(k, threw)
  \/ \E threw \in BOOLEAN : CollectSystemFetch(k, threw)
  \/ \E threw \in BOOLEAN : CycleSyncFetch(k, threw)
  \/ CycleSyncUpsert(k)
  \/ CycleSyncDelete(k)
  \/ CycleFindMany(k)
  \/ CycleLookup(k)
  \/ \E usable \in BOOLEAN : CycleStats(k, usable)
  \/ \E threw \in BOOLEAN : CycleStore(k, threw)
  \/ \E threw \in BOOLEAN : CycleFetch(k, threw)
  \/ CycleDelay(k)
  \/ \E weekly \in BOOLEAN : CycleReturn(k, weekly)
  \/ \E threw \in BOOLEAN : CycleCleanup(k, threw)

NextCycle ==
  \/ Start
  \/ TimerFire
  \/ \E k \in Executions : CycleStep(k)

SpecCycle == InitCycle /\ [][NextCycle]_vars

\* the event loop runs every continuation that is ready, and main calls start
SpecCycleFair ==
  SpecCycle /\ WF_vars(Start) /\ \A k \in Executions : WF_vars(CycleStep(k))

\* the first round after start() when no command, store call or fetch fails
FirstCycleStep ==
  \/ GetCPUUsage("e1")
  \/ GetCPUUsageTimer("e1")
  \/ CollectSystemDf("e1", FALSE)
  \/ CollectSystemCreate("e1", FALSE)
  \/ CollectSystemFetch("e1", FALSE)
  \/ CycleSyncFetch("e1", FALSE)
  \/ CycleSyncUpsert("e1")
  \/ CycleSyncDelete("e1")
  \/ CycleFindMany("e1")
  \/ CycleLookup("e1")
  \/ CycleStats("e1", TRUE)
  \/ CycleStore("e1", FALSE)
  \/ CycleFetch("e1", FALSE)
  \/ CycleDelay("e1")
  \/ CycleReturn("e1", FALSE)

NextFirstCycle == Start \/ FirstCycleStep

SpecFirstCycle ==
  InitCycle /\ [][NextFirstCycle]_vars /\ WF_vars(Start) /\ WF_vars(FirstCycleStep)

\* ---- properties of the reconciler and the store ------------------------

Collector == sync["collector"]
CollectorCompletes == Collector.pc = "upsert" /\ sync'["collector"].pc = "done"
IdPairs(table) == {<<r.id, r.containerId>> : r \in table}
RowIds(rows) == {x.id : x \in rows}

\* C1 as claimed: when a reconcile run completes against a snapshot, the
\* runtime ids in the Container table are exactly the snapshot's ids.
ConvergenceAsClaimed ==
  [][CollectorCompletes =>
       ContainerIds(containers') = RuntimeIdsOf(Collector.allList)]_vars

\* C1: when a reconcile run completes against a non-empty snapshot, the
\* runtime ids in the Container table are exactly the snapshot's ids; against
\* an empty snapshot the table keeps the runtime ids it had.
Convergence ==
  [][CollectorCompletes =>
       ContainerIds(containers') =
         IF Collector.allList # {} THEN RuntimeIdsOf(Collector.allList)
                                   ELSE ContainerIds(containers)]_vars

\* a run against a non-empty snapshot has completed, the table holds the
\* snapshot's ids, and a row created by an earlier run is gone
ConvergenceWitness ==
  /\ Collector.pc = "done"
  /\ Collector.allList # {}
  /\ ContainerIds(containers) = RuntimeIdsOf(Collector.allList)
  /\ \E id \in 1..(nextId - 1) : id \notin InternalIds(containers)
  /\ \E c \in containers : c.status = "stopped"

\* C2: a reconcile run whose snapshot is empty deletes no Container row and
\* leaves the metric, scan and alert tables as they were.
NonDestructiveOnEmpty ==
  [][(CollectorCompletes /\ Collector.allList = {}) =>
       UNCHANGED <<containers, metrics, scans, alerts>>]_vars

\* a run against an empty snapshot has completed and the inventory still
\* holds a container with a dependent row
NonDestructiveOnEmptyWitness ==
  /\ Collector.pc = "done"
  /\ Collector.allList = {}
  /\ \E c \in containers : \E x \in metrics \cup scans \cup alerts : x.containerId = c.id

\* C3: in a run against the list the previous completed run saw, no step
\* changes the number of Container rows or the internal id of any of them.
Idempotence ==
  [][(Collector.pc = "upsert" /\ Collector.repeat /\ sync' # sync) =>
       /\ Cardinality(containers') = Cardinality(containers)
       /\ IdPairs(containers') = IdPairs(containers)]_vars

\* a second run against an unchanged list of two containers has completed
IdempotenceWitness ==
  /\ Collector.pc = "done"
  /\ Collector.repeat
  /\ Cardinality(Collector.allList) = 2
  /\ Cardinality(containers) = 2
  /\ \E c \in containers : c.status = "stopped"

ReferentialIntegrity ==
  /\ \A m \in metrics : \E c \in containers : c.id = m.containerId
  /\ \A s \in scans : \E c \in containers : c.id = s.containerId
  /\ \A a \in alerts : a.containerId # NULL => \E c \in containers : c.id = a.containerId

\* the sampler's container was deleted between its lookup and its insert and
\* the insert was turned down, while a scan callback still holds the id of a
\* container that is gone
ReferentialIntegrityWitness ==
  /\ collect.outcome = "rejected"
  /\ \E j \in jobs : j.containerId \notin InternalIds(containers)

\* ---- two reconcilers at once ---------------------------------------------

\* an inventory left by earlier runs (a row of a container the runtime may
\* still list, a row of a container that is gone for good), a host whose
\* containers stay as they are, nothing in progress
InitReconcile ==
  /\ now = 0
  /\ docker \in [RuntimeIds -> {"absent", "running", "stopped"}]
  /\ containers \in SUBSET {[id |-> 11, containerId |-> "a", status |-> "stopped"],
                             [id |-> 12, containerId |-> "old", status |-> "running"]}
  /\ metrics = {}
  /\ alerts = {}
  /\ scans = {}
  /\ nextId = 1
  /\ sync = [p \in Reconcilers |-> SyncIdle]
  /\ collect = CollectIdle
  /\ jobs = {}
  /\ sweep = SweepIdle
  /\ mc = McIdle
  /\ cycle = [k \in Executions |-> CycleIdle]
  /\ host = 0
  /\ gateway = GatewayIdle
  /\ calc = CalcIdle
  /\ proc = ProcIdle

\* the collector's reconciler and the one of GET /api/containers, each await
\* of either interleaved with the other's
NextReconcile ==
  \/ \E p \in Reconcilers : SyncFetch(p)
  \/ \E p \in Reconcilers : SyncFetchFail(p)
  \/ \E p \in Reconcilers : SyncUpsert(p)
  \/ \E p \in Reconcilers : SyncDelete(p)

SpecReconcile == InitReconcile /\ [][NextReconcile]_vars

\* ---- a retention sweep beside a collection round ------------------------

\* the days the cleanup handler takes from the request body: it is destructured
\* with a default and used as it comes, so zero and negative numbers pass

\* a round takes seconds: the day changes only between rounds
TickBetweenRounds == (\A k \in Executions : Free(k)) /\ Tick

\* the first round of a started collector while POST /api/cleanup is served
NextRace ==
  \/ Start
  \/ FirstCycleStep
  \/ TickBetweenRounds
  \/ \E days \in -1..MaxDays, dryRun \in BOOLEAN : SweepStart(days, dryRun)
  \/ \E threw \in BOOLEAN : SweepMetrics(threw)
  \/ \E threw \in BOOLEAN : SweepAlerts(threw)
  \/ \E threw \in BOOLEAN : SweepScans(threw)

SpecRace == InitCycle /\ [][NextRace]_vars

\* ---- the broadcast gateway ----------------------------------------------

\* a request body without a containerId (undefined or empty: !containerId)
NoContainerId == ""

\* the room a subscriber of one container joins
Room(containerId) == "container_" \o containerId
\* an emit on the /metrics namespace or on io itself reaches every socket of it
MetricsNamespace == "/metrics"
MainNamespace == "/"

\* where each utility emits
Rooms(utility, containerId) ==
  CASE utility = "broadcastMetricUpdate" -> {Room(containerId)}
    [] utility = "broadcastGlobalMetricUpdate" -> {MetricsNamespace}
    [] utility = "broadcastAlert" -> {"alerts", MainNamespace}
    [] utility = "broadcastScanResult" -> {"scans", MainNamespace}
    [] utility = "broadcastContainerStatusChange" -> {MetricsNamespace, MainNamespace}
    [] utility = "broadcastSystemNotification" -> {MainNamespace}

\* socketUtils.<utility>(...) on the object setupSocket returns, which
\* global.socketUtils holds: calling a property the object does not have
\* throws a TypeError
Call(utility, containerId) ==
  IF utility \in {"broadcastMetricUpdate", "broadcastGlobalMetricUpdate",
                  "broadcastAlert", "broadcastScanResult",
                  "broadcastContainerStatusChange", "broadcastSystemNotification"}
    THEN [threw |-> FALSE, rooms |-> Rooms(utility, containerId)]
    ELSE [threw |-> TRUE, rooms |-> {}]

\* the handler answers: status, and the rooms it emitted to
Respond(status, rooms) ==
  gateway' = [gateway EXCEPT !.pc = "done", !.status = status, !.emitted = rooms]

\* POST /api/metrics/broadcast up to the container lookup
GatewayPost(initialized, containerId, hasMetrics) ==
  /\ gateway.pc = "idle"
  /\ LET call == Call("broadcastSystemMetrics", containerId)
         req == [GatewayIdle EXCEPT !.socketUtils = initialized,
                                    !.metrics = hasMetrics,
                                    !.containerId = containerId]
     IN gateway' =
          IF ~initialized THEN [req EXCEPT !.pc = "done", !.status = 500]
          ELSE IF ~hasMetrics THEN [req EXCEPT !.pc = "done", !.status = 400]
          ELSE IF containerId = NoContainerId
            THEN IF call.threw
                   THEN [req EXCEPT !.pc = "done", !.status = 500]
                   ELSE [req EXCEPT !.pc = "done", !.status = 200,
                                    !.emitted = call.rooms]
            ELSE [req EXCEPT !.pc = "findUnique"]
  /\ UNCHANGED <<now, docker, containers, metrics, alerts, scans, nextId, sync,
                 collect, jobs, sweep, mc, cycle, host, calc, proc>>

\* db.container.findUnique({where: {containerId}}) answered, or threw
GatewayFindUnique(threw) ==
  /\ gateway.pc = "findUnique"
  /\ LET call == Call("broadcastMetricUpdate", gateway.containerId)
     IN IF threw THEN Respond(500, {})
        ELSE IF gateway.containerId \notin ContainerIds(containers) THEN Respond(404, {})
        ELSE IF call.threw THEN Respond(500, {})
        ELSE Respond(200, call.rooms)
  /\ UNCHANGED <<now, docker, containers, metrics, alerts, scans, nextId, sync,
                 collect, jobs, sweep, mc, cycle, host, calc, proc>>

\* the response is sent; the next request can arrive
GatewayReturn ==
  /\ gateway.pc = "done"
  /\ gateway' = GatewayIdle
  /\ UNCHANGED <<now, docker, containers, metrics, alerts, scans, nextId, sync,
                 collect, jobs, sweep, mc, cycle, host, calc, proc>>

\* the gateway serving requests while the collector's reconciler keeps the
\* inventory, against a host whose containers come and go
NextGateway ==
  \/ \E r \in RuntimeIds, st \in {"absent", "running"} : DockerChange(r, st)
  \/ SyncFetch("collector")
  \/ SyncFetchFail("collector")
  \/ SyncUpsert("collector")
  \/ SyncDelete("collector")
  \/ \E initialized \in BOOLEAN, containerId \in RuntimeIds \cup {NoContainerId}, hasMetrics \in BOOLEAN :
       GatewayPost(initialized, containerId, hasMetrics)
  \/ \E threw \in BOOLEAN : GatewayFindUnique(threw)
  \/ GatewayReturn

SpecGateway == Init /\ [][NextGateway]_vars

\* ---- the pure functions of the collector --------------------------------

\* the collector is not running and the store is empty: only a function of
\* the code is applied to an argument
Quiet ==
  /\ now = 0
  /\ docker = [r \in RuntimeIds |-> "absent"]
  /\ containers = {}
  /\ metrics = {}
  /\ alerts = {}
  /\ scans = {}
  /\ nextId = 1
  /\ sync = [p \in Reconcilers |-> SyncIdle]
  /\ collect = CollectIdle
  /\ jobs = {}
  /\ sweep = SweepIdle
  /\ mc = McIdle
  /\ cycle = [k \in Executions |-> CycleIdle]
  /\ host = 0
  /\ gateway = GatewayIdle
  /\ proc = ProcIdle

\* null, and a result not yet there: no number (den = 0)
Null == [num |-> 0, den |-> 0, exp |-> 0]

\* the function has returned: calc keeps the argument and gains the result
Return(result) ==
  /\ calc.pc = "in"
  /\ calc' = [calc EXCEPT !.pc = "out", !.out = result]
  /\ UNCHANGED <<now, docker, containers, metrics, alerts, scans, nextId, sync,
                 collect, jobs, sweep, mc, cycle, host, gateway, proc>>

\* a value of a JavaScript number that is a quotient: num / den, den > 0
Quotient(num, den) == [num |-> num, den |-> den, exp |-> 0]

\* ---- getCPUUsage: the arithmetic on the two snapshots --------------------

\* the first line of /proc/stat as parseCPU returns it. Counts that decide
\* the idle share range up to MaxJiffies, the others up to 1
Snapshots == [user : 0..MaxJiffies, nice : 0..1, system : 0..1,
              idle : 0..MaxJiffies, iowait : 0..MaxJiffies,
              irq : 0..1, softirq : 0..1]

Total(snap) ==
  snap.user + snap.nice + snap.system + snap.idle + snap.iowait + snap.irq + snap.softirq
Idle(snap) == snap.idle + snap.iowait

\* totalDiff > 0 ? ((totalDiff - idleDiff) / totalDiff) * 100 : 0
CPUUsage(first, second) ==
  LET totalDiff == Total(second) - Total(first)
      idleDiff == Idle(second) - Idle(first)
  IN IF totalDiff > 0 THEN Quotient((totalDiff - idleDiff) * 100, totalDiff)
                      ELSE Quotient(0, 1)

ApplyCPUUsage == Return(CPUUsage(calc.arg.first, calc.arg.second))

\* getCPUUsage on every pair of snapshots
InitCpu ==
  /\ Quiet
  /\ calc \in {[pc |-> "in", fn |-> "getCPUUsage", arg |-> [first |-> f, second |-> g],
                 out |-> Null] : f, g \in Snapshots}

SpecCpu == InitCpu /\ [][ApplyCPUUsage]_vars

\* ---- strings, numbers and the unit parser --------------------------------

\* a string is the sequence of its characters
Digits == {"0", "1", "5"}
UnitLetters == {"K", "k", "M", "G", "T"}

RECURSIVE StringsOf(_)
StringsOf(n) ==
  IF n = 0 THEN {<<>>}
  ELSE StringsOf(n - 1) \cup {Append(t, c) : t \in {u \in StringsOf(n - 1) : Len(u) = n - 1},
                                              c \in Digits \cup UnitLetters \cup {".", "i", "B", "x"}}

DigitVal(c) == CASE c = "0" -> 0 [] c = "1" -> 1 [] c = "5" -> 5
IsDigit(str, p) == p >= 1 /\ p <= Len(str) /\ str[p] \in Digits

\* \d+ is greedy: the last position of the run of digits that starts at p
RECURSIVE RunEnd(_, _)
RunEnd(str, p) == IF IsDigit(str, p + 1) THEN RunEnd(str, p + 1) ELSE p

\* the integer a run of digits spells
RECURSIVE NumberOf(_)
NumberOf(ds) ==
  IF ds = <<>> THEN 0
  ELSE NumberOf(SubSeq(ds, 1, Len(ds) - 1)) * 10 + DigitVal(ds[Len(ds)])

RECURSIVE Pow10(_)
Pow10(n) == IF n = 0 THEN 1 ELSE 10 * Pow10(n - 1)

\* a JavaScript number num / den * 1024^exp (den > 0); powers of 1024 are
\* kept apart
Number(num, den, exp) == [num |-> num, den |-> den, exp |-> exp]
Zero == Number(0, 1, 0)
Times1024(v, k) == [v EXCEPT !.exp = @ + k]

\* x * 1024^d = y
RECURSIVE EqShift(_, _, _)
EqShift(x, d, y) ==
  IF d = 0 THEN x = y ELSE y % 1024 = 0 /\ EqShift(x, d - 1, y \div 1024)

\* a === b for two such numbers
SameNumber(a, b) ==
  /\ a # Null
  /\ b # Null
  /\ IF a.exp >= b.exp THEN EqShift(a.num * b.den, a.exp - b.exp, b.num * a.den)
                       ELSE EqShift(b.num * a.den, b.exp - a.exp, a.num * b.den)

\* parseFloat of the first capture: digits, or digits "." digits
ParseFloat(int, frac) == Number(NumberOf(int \o frac), Pow10(Len(frac)), 0)

\* the first position at which /(\d+(?:\.\d+)?)([KMGT]?)i?B?/i can match: the
\* first digit of the string, 0 when it has none
FirstDigit(str) ==
  IF \E p \in 1..Len(str) : str[p] \in Digits
    THEN CHOOSE p \in 1..Len(str) :
           str[p] \in Digits /\ \A q \in 1..(p - 1) : str[q] \notin Digits
    ELSE 0

\* str.match(/(\d+(?:\.\d+)?)([KMGT]?)i?B?/i) from position p on: the two
\* captures and the position of the last character matched
MatchAt(str, p) ==
  LET q == RunEnd(str, p)
      hasFrac == q + 1 <= Len(str) /\ str[q + 1] = "." /\ IsDigit(str, q + 2)
      r == IF hasFrac THEN RunEnd(str, q + 2) ELSE q
      hasUnit == r + 1 <= Len(str) /\ str[r + 1] \in UnitLetters
      u == IF hasUnit THEN r + 1 ELSE r
      hasI == u + 1 <= Len(str) /\ str[u + 1] = "i"
      i == IF hasI THEN u + 1 ELSE u
      hasB == i + 1 <= Len(str) /\ str[i + 1] = "B"
  IN [int |-> SubSeq(str, p, q),
      frac |-> IF hasFrac THEN SubSeq(str, q + 2, r) ELSE <<>>,
      unit |-> IF hasUnit THEN (IF str[r + 1] = "k" THEN "K" ELSE str[r + 1]) ELSE "",
      last |-> IF hasB THEN i + 1 ELSE i]

\* parseBytes(str)
ParseBytes(str) ==
  IF str = <<>> \/ FirstDigit(str) = 0 THEN Zero
  ELSE LET match == MatchAt(str, FirstDigit(str))
           value == ParseFloat(match.int, match.frac)
       IN CASE match.unit = "K" -> Times1024(value, 1)
            [] match.unit = "M" -> Times1024(value, 2)
            [] match.unit = "G" -> Times1024(value, 3)
            [] match.unit = "T" -> Times1024(value, 4)
            [] OTHER -> value

\* memLimitMB of collectSingleContainerMetrics for the limit token
MemLimit(memLimitValue) ==
  IF memLimitValue = <<>> \/ FirstDigit(memLimitValue) = 0 THEN Null
  ELSE LET memLimitMatch == MatchAt(memLimitValue, FirstDigit(memLimitValue))
           value == ParseFloat(memLimitMatch.int, memLimitMatch.frac)
       IN CASE memLimitMatch.unit = "G" -> Times1024(value, 1)
            [] memLimitMatch.unit = "K" -> Times1024(value, -1)
            [] memLimitMatch.unit = "T" -> Times1024(value, 2)
            [] OTHER -> value

ApplyParseBytes ==
  /\ calc.fn = "parseBytes"
  /\ Return(ParseBytes(calc.arg))

ApplyMemLimit ==
  /\ calc.fn = "memLimit"
  /\ Return(MemLimit(calc.arg))

\* parseBytes and the memory limit conversion on every string of up to
\* MaxLen characters
InitUnits ==
  /\ Quiet
  /\ calc \in {[pc |-> "in", fn |-> f, arg |-> str, out |-> Null] :
                 f \in {"parseBytes", "memLimit"}, str \in StringsOf(MaxLen)}

SpecUnits == InitUnits /\ [][ApplyParseBytes \/ ApplyMemLimit]_vars

\* ---- the docker stats line ----------------------------------------------

\* what `${parts[i]}` gives for an index past the end

\* parts[i], counted from 0 as the code counts
Part(parts, i) == IF i + 1 <= Len(parts) THEN parts[i + 1] ELSE <<"u", "n", "d", "e", "f", "i", "n", "e", "d">>

\* parseFloat(token): the number the token starts with, NaN (Null) without one
JsParseFloat(token) ==
  LET q == IF IsDigit(token, 1) THEN RunEnd(token, 1) ELSE 0
      hasFrac == q + 1 <= Len(token) /\ token[q + 1] = "." /\ IsDigit(token, q + 2)
      r == IF hasFrac THEN RunEnd(token, q + 2) ELSE q
  IN IF q = 0 /\ ~hasFrac THEN Null
     ELSE ParseFloat(SubSeq(token, 1, q), IF hasFrac THEN SubSeq(token, q + 2, r) ELSE <<>>)

\* isNaN(x) ? 0 : x
NaNToZero(x) == IF x = Null THEN Zero ELSE x

DotDigits == Digits \cup {"."}

\* the length of the longest prefix of str made of digits and dots
RECURSIVE DotDigitRun(_)
DotDigitRun(str) ==
  IF str # <<>> /\ Head(str) \in DotDigits THEN 1 + DotDigitRun(Tail(str)) ELSE 0

\* the position after the last digit or dot of str, 0 when it has none
LastDotDigit(str) ==
  IF \E p \in 1..Len(str) : str[p] \in DotDigits
    THEN CHOOSE p \in 1..Len(str) :
           str[p] \in DotDigits /\ \A q \in (p + 1)..Len(str) : str[q] \notin DotDigits
    ELSE 0

\* the start of the run of digits and dots that ends at position q
RECURSIVE RunStart(_, _)
RunStart(str, q) ==
  IF q > 1 /\ str[q - 1] \in DotDigits THEN RunStart(str, q - 1) ELSE q

\* `${a} / ${b}`.match(/([\d.]+[KMGT]?)i?B?\s*\/\s*([\d.]+[KMGT]?)i?B?/i) for
\* two tokens without a slash: the slash of the expression is the one between
\* them, so the first capture ends a and the second begins b
IOMatch(a, b) ==
  LET q == LastDotDigit(a)
      tail == SubSeq(a, q + 1, Len(a))
      unitA == tail # <<>> /\ tail[1] \in UnitLetters
      n == DotDigitRun(b)
      \* what [KMGT]?i?B? can match
      Tails ==
        {<<>>, <<"i">>, <<"B">>, <<"i", "B">>} \cup
        {<<u>> : u \in UnitLetters} \cup {<<u, "i">> : u \in UnitLetters} \cup
        {<<u, "B">> : u \in UnitLetters} \cup {<<u, "i", "B">> : u \in UnitLetters}
      unitB == n + 1 <= Len(b) /\ b[n + 1] \in UnitLetters
  IN IF q = 0 \/ tail \notin Tails \/ n = 0 THEN [matched |-> FALSE, c1 |-> <<>>, c2 |-> <<>>]
     ELSE [matched |-> TRUE,
           c1 |-> SubSeq(a, RunStart(a, q), IF unitA THEN q + 1 ELSE q),
           c2 |-> SubSeq(b, 1, IF unitB THEN n + 1 ELSE n)]

\* collectSingleContainerMetrics from the split line to metricData: no sample
\* for fewer than 9 parts, else the record that is given to the insert

MetricData(parts) ==
  IF Len(parts) < 9
    THEN [sample |-> FALSE, cpuUsage |-> Null, memUsage |-> Null, memLimit |-> Null,
          netIn |-> Null, netOut |-> Null, diskRead |-> Null, diskWrite |-> Null]
  ELSE LET netIOMatch == IOMatch(Part(parts, 6), Part(parts, 8))
           blockIOMatch == IOMatch(Part(parts, 9), Part(parts, 11))
       IN [sample |-> TRUE,
           cpuUsage |-> NaNToZero(JsParseFloat(Part(parts, 1))),
           memUsage |-> NaNToZero(JsParseFloat(Part(parts, 5))),
           memLimit |-> MemLimit(Part(parts, 4)),
           netIn |-> IF netIOMatch.matched THEN ParseBytes(netIOMatch.c1) ELSE Zero,
           netOut |-> IF netIOMatch.matched THEN ParseBytes(netIOMatch.c2) ELSE Zero,
           diskRead |-> IF blockIOMatch.matched THEN ParseBytes(blockIOMatch.c1) ELSE Null,
           diskWrite |-> IF blockIOMatch.matched THEN ParseBytes(blockIOMatch.c2) ELSE Null]

ApplyMetricData == Return(MetricData(calc.arg))

\* a stats line of the documented layout with its sizes filled in, followed
\* by further tokens
FullLine(t1, t2) ==
  <<<<"x">>, t1, t1, <<"/">>, t2, t1, t1, <<"/">>, t2, t1, <<"/">>, t2>>
    \o [i \in 1..MaxTokens |-> <<"x">>]

\* the stats line, with sizes as docker prints them or no number for a size,
\* cut off after any number of tokens
InitStats ==
  /\ Quiet
  /\ calc \in {[pc |-> "in", fn |-> "metricData",
                 arg |-> SubSeq(FullLine(t1, t2), 1, n), out |-> Null] :
                 t1, t2 \in {<<"1", ".", "5", "k", "B">>, <<"0", "B">>, <<"x">>},
                 n \in 0..MaxTokens}

SpecStats == InitStats /\ [][ApplyMetricData]_vars

\* ---- properties of the broadcast gateway --------------------------------

\* C15: a request the gateway has answered, that came with metrics while the
\* socket utilities were set: if it named a container and was accepted it was
\* published to that container's room and to no other; if it named no
\* container it was published to the global channel and answered with success.
BroadcastRouting ==
  (gateway.pc = "done" /\ gateway.socketUtils /\ gateway.metrics) =>
    IF gateway.containerId = NoContainerId
      THEN gateway.status = 200 /\ gateway.emitted = {MetricsNamespace}
      ELSE gateway.status = 200 => gateway.emitted = {Room(gateway.containerId)}

\* ---- properties of the scan callback -----------------------------------

\* the callback of job j takes a step; it ends with this step
CallbackStep(j) == j \in jobs /\ j \notin jobs'
CallbackEnds(j) == j \in jobs /\ \A k \in jobs' : k.scan # j.scan
HighOrCritical(findings) ==
  {i \in DOMAIN findings : findings[i] = "HIGH" \/ findings[i] = "CRITICAL"}

\* C11: a step of a scan's callback creates at most one alert, and only for a
\* finding of the result whose severity is HIGH or CRITICAL, with that
\* severity, the scan type as source and the scanned container as
\* containerId; when the callback ends and leaves the scan completed, it has
\* created as many alerts as the result has HIGH or CRITICAL findings.
AlertDeriverThreshold ==
  [][\A j \in jobs :
       /\ CallbackStep(j) =>
            /\ Cardinality(alerts' \ alerts) <= 1
            /\ \A a \in alerts' \ alerts :
                 /\ a.severity \in {"HIGH", "CRITICAL"}
                 /\ \E i \in HighOrCritical(MockResult(j.scanType)) :
                      /\ MockResult(j.scanType)[i] = a.severity
                      /\ Cardinality({k \in HighOrCritical(MockResult(j.scanType)) : k < i}) = j.made
                 /\ a.source = j.scanType
                 /\ a.containerId = j.containerId
                 /\ ~a.resolved
       /\ (CallbackEnds(j) /\ \E s \in scans' : s.id = j.scan /\ s.status = "completed") =>
            j.made + Cardinality(alerts' \ alerts) =
              Cardinality(HighOrCritical(MockResult(j.scanType)))]_vars

\* the callback of a trivy scan, whose result has a HIGH and a MEDIUM finding,
\* has ended: the scan is completed and the store holds one alert from trivy,
\* of severity HIGH, for the scanned container
AlertDeriverThresholdWitness ==
  /\ jobs = {}
  /\ Cardinality(scans) = 1
  /\ Cardinality({a \in alerts : a.source = "trivy"}) = 1
  /\ \E s \in scans, a \in alerts :
       /\ s.status = "completed"
       /\ a.source = "trivy" /\ a.severity = "HIGH" /\ a.containerId = s.containerId

\* C12: a scan row whose status is completed or failed keeps that status in
\* every step that leaves the row in the store, and a running row changes
\* only to completed or failed.
ScanStatusProtocol ==
  [][\A s \in scans : \A t \in scans' : t.id = s.id =>
       /\ s.status \in {"completed", "failed"} => t.status = s.status
       /\ s.status = "running" => t.status \in {"running", "completed", "failed"}]_vars

\* ---- properties of the collector's rounds ------------------------------

Sampling == {"lookup", "stats", "store", "fetch", "delay"}
RoundStep(k) == cycle'[k] # cycle[k]

\* C13: at no time are two collection rounds of the collector in flight.
CyclesNeverOverlap == Cardinality({k \in Executions : InFlight(k)}) <= 1

\* C14: a round is at a broadcast only when it has persisted the row of the
\* sample it broadcasts (one more SystemMetric row, or a ContainerMetric row
\* of the container at hand, inserted by this round); the broadcast step,
\* whether or not the fetch throws, leaves every table and the round's own
\* rows as they are and is followed by the step that follows a broadcast
\* that succeeded, with the containers still to sample unchanged.
PersistBeforeBroadcast ==
  /\ [](\A k \in Executions :
         /\ cycle[k].pc = "systemFetch" => cycle[k].hostRow
         /\ cycle[k].pc = "fetch" =>
              \E row \in cycle[k].rows : row.containerId = cycle[k].container)
  /\ [][\A k \in Executions :
         /\ (cycle'[k].hostRow /\ ~cycle[k].hostRow) => host' = host + 1
         /\ cycle'[k].rows \ cycle[k].rows \subseteq metrics' \ metrics
         /\ (cycle[k].pc \in {"systemFetch", "fetch"} /\ RoundStep(k)) =>
              /\ UNCHANGED <<host, metrics, containers>>
              /\ cycle'[k].rows = cycle[k].rows
              /\ cycle'[k].hostRow = cycle[k].hostRow
              /\ cycle'[k].pc = IF cycle[k].pc = "systemFetch" THEN "sync" ELSE "delay"
              /\ cycle'[k].list = cycle[k].list
              /\ cycle'[k].cur = cycle[k].cur]_vars

\* a round whose broadcast threw after it had persisted the host sample and
\* the sample of the first of two running containers: the row is in the
\* store and the round is at the docker stats of the second container
PersistBeforeBroadcastWitness ==
  \E k \in Executions :
    /\ cycle[k].fetchThrew
    /\ cycle[k].hostRow /\ host >= 1
    /\ Cardinality(cycle[k].found) = 2
    /\ Cardinality(cycle[k].rows) = 1
    /\ cycle[k].rows \subseteq metrics
    /\ cycle[k].pc = "stats"
    /\ \A row \in cycle[k].rows : row.containerId # cycle[k].container

\* C20: in every round the host sample is persisted only after the round's
\* reconcile has returned, and only before the round samples its first
\* container.
CycleStepOrder ==
  /\ [](\A k \in Executions : cycle[k].hostRow => cycle[k].synced # "none")
  /\ [][\A k \in Executions :
         (cycle'[k].hostRow /\ ~cycle[k].hostRow) =>
           (cycle[k].pc \notin Sampling /\ cycle[k].rows = {})]_vars

\* the metric rows of a round are rows of containers the round read as
\* running, one row a container at most, and the round reads the running
\* containers after its reconcile has returned
SamplingScopeOfRound(k) ==
  /\ \A row \in cycle[k].rows :
       \E f \in cycle[k].found : f.id = row.containerId /\ f.status = "running"
  /\ \A r1, r2 \in cycle[k].rows : r1.containerId = r2.containerId => r1 = r2
  /\ cycle[k].pc \in Sampling => cycle[k].synced # "none"
  /\ \A f \in cycle[k].found : f.status = "running"

ListAB == [r \in RuntimeIds |-> IF r = "a" THEN "running" ELSE "stopped"]
FirstCycleAB ==
  /\ cycle["e1"].kind = "eager" /\ cycle["e1"].pc = "done"
  /\ Cardinality(containers) = 2
  /\ Cardinality(metrics) = 1
  /\ \A m \in metrics : \E c \in containers : c.id = m.containerId /\ c.containerId = "a"

\* C16: the metric rows a round persists are rows of containers whose status
\* was running when the round read the table after its reconcile, at most
\* one row a container; and with the runtime list [a running, b stopped] the
\* first round ends with two Container rows and one ContainerMetric row, for a.
SamplingScope ==
  /\ [](\A k \in Executions : SamplingScopeOfRound(k))
  /\ (docker = ListAB /\ mc.running) ~> FirstCycleAB

\* C19: every call of getCPUUsage returns, every collectSystemMetrics gets
\* past its create or its catch, and a collector that is running gets to
\* install the interval.
CpuSamplerTermination ==
  /\ \A k \in Executions :
       (cycle[k].pc = "cpu") ~> (cycle[k].pc \notin {"cpu", "snapshot", "pending"})
  /\ \A k \in Executions :
       (cycle[k].pc = "cpu") ~>
         (cycle[k].pc \notin {"cpu", "snapshot", "pending", "df", "systemCreate"})
  /\ mc.running ~> mc.intervalId

\* ---- sweep scenarios -----------------------------------------------------

\* a store that has been in use: one container, reconciled and running, with
\* up to MaxSeed rows written on earlier days, at most one of each kind a day
SeedContainer == [id |-> 1, containerId |-> "a", status |-> "running"]
SeedTimes == 0..1

InitSweep ==
  /\ now = 1
  /\ docker = [r \in RuntimeIds |-> IF r = "a" THEN "running" ELSE "absent"]
  /\ containers = {SeedContainer}
  /\ metrics \in SUBSET {[id |-> 10 + t, containerId |-> 1, timestamp |-> t] : t \in SeedTimes}
  /\ alerts \in SUBSET
       {[id |-> 20 + 2 * t + (IF r THEN 1 ELSE 0), severity |-> "HIGH", source |-> "trivy",
         containerId |-> 1, resolved |-> r, timestamp |-> t] : t \in SeedTimes, r \in BOOLEAN}
  /\ scans \in SUBSET
       {[id |-> 30 + 3 * t + (CASE st = "running" -> 0 [] st = "completed" -> 1
                                [] st = "failed" -> 2),
         containerId |-> 1, status |-> st, timestamp |-> t] :
          t \in SeedTimes, st \in {"running", "completed", "failed"}}
  /\ Cardinality(metrics) + Cardinality(alerts) + Cardinality(scans) <= MaxSeed
  /\ nextId = 2
  /\ sync = [p \in Reconcilers |-> SyncIdle]
  /\ collect = CollectIdle
  /\ jobs = {}
  /\ sweep = SweepIdle
  /\ mc = McIdle
  /\ cycle = [k \in Executions |-> CycleIdle]
  /\ host = 0
  /\ gateway = GatewayIdle
  /\ calc = CalcIdle
  /\ proc = ProcIdle

\* the sweep against that store while the clock runs and operators resolve
\* and reopen alerts between its statements
NextSweep ==
  \/ Tick
  \/ \E days \in DaysArg, dryRun \in BOOLEAN : SweepStart(days, dryRun)
  \/ \E threw \in BOOLEAN : SweepMetrics(threw)
  \/ \E threw \in BOOLEAN : SweepAlerts(threw)
  \/ \E threw \in BOOLEAN : SweepScans(threw)
  \/ \E a \in alerts, flag \in BOOLEAN : AlertSetResolved(a, flag)

SpecSweep == InitSweep /\ [][NextSweep]_vars

\* ---- properties of the retention sweep ---------------------------------

\* one of the three try blocks of a sweep executes
SweepStep == sweep.pc \in {"metrics", "alerts", "scans"} /\ sweep' # sweep
SweepThrew == sweep'.errors # sweep.errors
Cutoffs == {now - d : d \in DaysArg}

\* C6: no statement of a non-dry-run sweep deletes an alert that is
\* unresolved or not older than the cutoff, and the alert statement, unless
\* it throws, deletes every resolved alert older than the cutoff.
RetentionAlertRule ==
  [][(SweepStep /\ ~sweep.dryRun) =>
       /\ \A a \in alerts :
            (~a.resolved \/ a.timestamp >= sweep.cutoff) => a \in alerts'
       /\ (sweep.pc = "alerts" /\ ~SweepThrew) =>
            \A a \in alerts :
              (a.resolved /\ a.timestamp < sweep.cutoff) => a.id \notin RowIds(alerts')]_vars

\* a sweep has deleted a resolved alert and an unresolved alert older than
\* the cutoff is still in the store
RetentionAlertRuleWitness ==
  /\ sweep.pc \in {"scans", "done"}
  /\ ~sweep.dryRun
  /\ sweep.alertsDeleted >= 1
  /\ \E a \in alerts : ~a.resolved /\ a.timestamp < sweep.cutoff

\* C7: a sweep deletes a scan row only in its scan statement and only if the
\* row is older than the cutoff and completed; running and failed scans stay.
RetentionScanRule ==
  [][SweepStep =>
       \A s \in scans : s.id \notin RowIds(scans') =>
         /\ s.timestamp < sweep.cutoff
         /\ s.status = "completed"
         /\ sweep.pc = "scans"]_vars

\* a sweep has deleted a completed scan and a running or failed scan older
\* than the cutoff is still in the store
RetentionScanRuleWitness ==
  /\ sweep.pc = "done"
  /\ ~sweep.dryRun
  /\ sweep.scansDeleted >= 1
  /\ \E s \in scans : s.status # "completed" /\ s.timestamp < sweep.cutoff

\* C8: no step of a dry-run sweep changes the Container, ContainerMetric,
\* Alert or Scan table.
DryRunReadOnly ==
  [][(sweep' # sweep /\ sweep'.dryRun) =>
       UNCHANGED <<containers, metrics, alerts, scans>>]_vars

\* a dry run has finished, has counted rows of all three classes, and the
\* rows it counted are all in the store
DryRunReadOnlyWitness ==
  /\ sweep.pc = "done"
  /\ sweep.dryRun
  /\ sweep.metricsDeleted >= 1 /\ sweep.metricsDeleted = MetricsCount(metrics, sweep.cutoff)
  /\ sweep.alertsDeleted >= 1 /\ sweep.alertsDeleted = AlertsCount(alerts, sweep.cutoff)
  /\ sweep.scansDeleted >= 1 /\ sweep.scansDeleted = ScansCount(scans, sweep.cutoff)

\* the results a sweep returns when it runs on the current store with no
\* statement throwing
SweepResults(dryRun, cutoff) ==
  [metricsDeleted |-> SweepCount(dryRun, FALSE, 0, metrics,
                                 MetricsDeleteMany(metrics, cutoff),
                                 MetricsCount(metrics, cutoff)),
   alertsDeleted |-> SweepCount(dryRun, FALSE, 0, alerts,
                                AlertsDeleteMany(alerts, cutoff),
                                AlertsCount(alerts, cutoff)),
   scansDeleted |-> SweepCount(dryRun, FALSE, 0, scans,
                               ScansDeleteMany(scans, cutoff),
                               ScansCount(scans, cutoff)),
   errors |-> <<>>]

\* C9: on every store and for every cutoff, the results of a dry-run sweep
\* are the results a deleting sweep would return on that store.
DryRunEquivalence ==
  \A cutoff \in Cutoffs : SweepResults(TRUE, cutoff) = SweepResults(FALSE, cutoff)

\* a dry run has finished without error on a store that holds an old resolved
\* alert, which it counted, and an old unresolved one, which it did not
DryRunEquivalenceWitness ==
  /\ sweep.pc = "done"
  /\ sweep.dryRun
  /\ sweep.errors = <<>>
  /\ sweep.alertsDeleted = 1
  /\ \E a \in alerts : ~a.resolved /\ a.timestamp < sweep.cutoff
  /\ [k \in {"metricsDeleted", "alertsDeleted", "scansDeleted", "errors"} |-> sweep[k]]
       = SweepResults(FALSE, sweep.cutoff)

\* the rows of a class that a sweep with this cutoff is to delete
MetricOld(m, cutoff) == m.timestamp < cutoff
AlertOld(a, cutoff) == a.timestamp < cutoff /\ a.resolved
ScanOld(s, cutoff) == s.timestamp < cutoff /\ s.status = "completed"
TableOf(class) ==
  CASE class = "metrics" -> metrics
    [] class = "alerts" -> alerts
    [] class = "scans" -> scans
TableAfter(class) ==
  CASE class = "metrics" -> metrics'
    [] class = "alerts" -> alerts'
    [] class = "scans" -> scans'
CountOf(sw, class) ==
  CASE class = "metrics" -> sw.metricsDeleted
    [] class = "alerts" -> sw.alertsDeleted
    [] class = "scans" -> sw.scansDeleted
OldIn(class, cutoff) ==
  CASE class = "metrics" -> {m \in metrics : MetricOld(m, cutoff)}
    [] class = "alerts" -> {a \in alerts : AlertOld(a, cutoff)}
    [] class = "scans" -> {s \in scans : ScanOld(s, cutoff)}
Following(class) ==
  CASE class = "metrics" -> "alerts"
    [] class = "alerts" -> "scans"
    [] class = "scans" -> "done"

\* C10: each try block of a sweep is followed by the next class whether or
\* not it threw; a block that threw appends one error, leaves its count 0 and
\* its rows untouched; a deleting block that did not throw removes its old
\* rows and reports their number; no block touches another class's rows or
\* count.
FailureIsolation ==
  [][SweepStep =>
       LET class == sweep.pc
       IN /\ sweep'.pc = Following(class)
          /\ SweepThrew =>
               /\ sweep'.errors = Append(sweep.errors, class)
               /\ CountOf(sweep', class) = 0
               /\ TableAfter(class) = TableOf(class)
          /\ (~SweepThrew /\ ~sweep.dryRun) =>
               /\ TableAfter(class) = TableOf(class) \ OldIn(class, sweep.cutoff)
               /\ CountOf(sweep', class) = Cardinality(OldIn(class, sweep.cutoff))
          /\ \A other \in {"metrics", "alerts", "scans"} \ {class} :
               /\ TableAfter(other) = TableOf(other)
               /\ CountOf(sweep', other) = CountOf(sweep, other)]_vars

\* a deleting sweep has finished in which the alert statement threw: the old
\* resolved alert is still there, and the metrics and scans deleted before
\* and after it are reported
FailureIsolationWitness ==
  /\ sweep.pc = "done"
  /\ ~sweep.dryRun
  /\ sweep.errors = <<"alerts">>
  /\ sweep.metricsDeleted >= 1
  /\ sweep.alertsDeleted = 0
  /\ sweep.scansDeleted >= 1
  /\ \E a \in alerts : AlertOld(a, sweep.cutoff)

\* ---- properties of a sweep beside a round -------------------------------

\* C17: no step of a retention sweep removes a ContainerMetric row that a
\* collection round still in flight has inserted.
SweepCollectionNonInterference ==
  [][SweepStep =>
       \A k \in Executions :
         InFlight(k) => (cycle[k].rows \cap metrics) \subseteq metrics']_vars

\* ---- properties of two reconcilers at once ------------------------------

\* the ids the runtime lists
Listed == {r \in RuntimeIds : docker[r] # "absent"}
BothDone == \A p \in Reconcilers : sync[p].pc = "done"
UniqueContainerId ==
  \A r1, r2 \in containers : r1.containerId = r2.containerId => r1 = r2
\* every record of a listed container is still there after the step, under
\* the same internal id
ListedRecordsKept ==
  \A r \in containers :
    r.containerId \in Listed =>
      \E r2 \in containers' : r2.id = r.id /\ r2.containerId = r.containerId

\* C18 as stated: however the two reconcile runs interleave, no two Container
\* records share a containerId, no step changes the internal id of a listed
\* record, and once both have finished the inventory's ids are the runtime
\* list.
ConcurrentReconcilersAsClaimed ==
  /\ []UniqueContainerId
  /\ [][ListedRecordsKept]_vars
  /\ [](BothDone => ContainerIds(containers) = Listed)

\* C18: however the two reconcile runs interleave, no two Container records
\* share a containerId and no step changes the internal id of a listed
\* record; once both have finished against a non-empty runtime list the
\* inventory's ids are that list; against an empty list no step changes the
\* inventory.
ConcurrentReconcilers ==
  /\ []UniqueContainerId
  /\ [][ListedRecordsKept /\ (Listed = {} => containers' = containers)]_vars
  /\ []((BothDone /\ Listed # {}) => ContainerIds(containers) = Listed)

\* both runs are in the middle of their upsert loops over a list of two, the
\* record of container a that was there before is among the rows
ConcurrentReconcilersWitness ==
  /\ \A p \in Reconcilers :
       /\ sync[p].pc = "upsert"
       /\ sync[p].todo # {}
       /\ sync[p].todo # sync[p].allList
  /\ \E r \in containers : r.id = 11 /\ r.containerId = "a"
  /\ \E r \in containers : r.containerId = "old"

\* ---- properties of the sampling loop -------------------------------------

\* the loop of collectContainerMetrics is over
LoopOver(k) == cycle[k].pc = "return" /\ cycle[k].found # {}
PersistedFor(k, r) == \E row \in cycle[k].rows : row.containerId = r.id

\* C21: when the sampling loop of a round is over, collectSingleContainerMetrics
\* was called for every running container the round found, whatever became
\* of the others, and every container whose stats line was usable and whose
\* insert was not turned down has its ContainerMetric row.
PerContainerIsolation ==
  \A k \in Executions :
    LoopOver(k) =>
      /\ cycle[k].tried = cycle[k].found
      /\ \A r \in cycle[k].valid \ cycle[k].rejected : PersistedFor(k, r)

\* a loop over two running containers is over: the first gave no usable stats
\* line, the second was sampled after it and has its row
PerContainerIsolationWitness ==
  \E k \in Executions :
    /\ LoopOver(k)
    /\ \E r1, r2 \in cycle[k].found :
         /\ r1.id < r2.id
         /\ r1 \notin cycle[k].valid
         /\ r2 \in cycle[k].valid \ cycle[k].rejected
         /\ PersistedFor(k, r2)

\* ---- properties of a round's sub-steps -----------------------------------

\* the reconcile of round k fails in this step
ReconcileFails(k) == cycle[k].pc = "sync" /\ cycle'[k].synced = "failed"
\* the host sampler of round k fails in this step (df or the insert threw)
HostSamplerFails(k) ==
  /\ cycle[k].pc \in {"df", "systemCreate"}
  /\ cycle'[k].pc \notin {"df", "systemCreate", "systemFetch"}
\* round k has had a failing reconcile or host sampler
SubStepFailed(k) ==
  \/ cycle[k].synced = "failed"
  \/ cycle[k].pc \in {"sync", "upsert", "findMany", "lookup", "stats", "store", "fetch",
                       "delay", "return", "cleanup", "done"} /\ ~cycle[k].hostRow

\* C22: a failing host sampler leaves the Container table alone and is
\* followed by the reconcile, a failing reconcile leaves the Container table
\* alone and is followed by findMany over the persisted inventory; the loop of
\* a round with such a failure still samples every running container found;
\* and once such a round is over the collector is running with its timer
\* installed, which no step of a round takes away.
SubStepContainment ==
  /\ [][\A k \in Executions :
         /\ HostSamplerFails(k) => containers' = containers /\ cycle'[k].pc = "sync"
         /\ ReconcileFails(k) => containers' = containers /\ cycle'[k].pc = "findMany"
         /\ (cycle[k].pc = "findMany" /\ cycle'[k].pc # "findMany") =>
              cycle'[k].found = FindMany(containers)
         /\ mc.intervalId => mc'.intervalId]_vars
  /\ [](\A k \in Executions :
         /\ (SubStepFailed(k) /\ LoopOver(k)) => cycle[k].tried = cycle[k].found
         /\ (SubStepFailed(k) /\ cycle[k].pc \in {"cleanup", "done"}) =>
              mc.running /\ mc.intervalId)

\* a periodic round whose host sampler and reconcile both failed has sampled
\* the container an earlier round registered, and stored the sample
SubStepContainmentWitness ==
  \E k \in Executions :
    /\ cycle[k].kind = "periodic"
    /\ cycle[k].synced = "failed"
    /\ ~cycle[k].hostRow
    /\ LoopOver(k)
    /\ cycle[k].tried = cycle[k].found
    /\ cycle[k].rows # {}

\* ---- properties of the pure functions ------------------------------------

\* C23: the usage computed from two snapshots is 0 when the total has not
\* moved and lies in [0, 100] otherwise.
CpuDeltaRange ==
  calc.pc = "out" =>
    IF Total(calc.arg.second) - Total(calc.arg.first) = 0
      THEN calc.out.num = 0
      ELSE 0 <= calc.out.num /\ calc.out.num <= 100 * calc.out.den

\* the whole string is <number><suffix>[i][B]
WellFormed(str) == IsDigit(str, 1) /\ MatchAt(str, 1).last = Len(str)
UnitPower(unit) ==
  CASE unit = "" -> 0 [] unit = "K" -> 1 [] unit = "M" -> 2 [] unit = "G" -> 3
    [] unit = "T" -> 4
\* number * 1024^k for a well-formed string
BytesOf(str) ==
  LET m == MatchAt(str, 1)
  IN Times1024(ParseFloat(m.int, m.frac), UnitPower(m.unit))

\* C26: parseBytes of a string <number><suffix>[i][B] is number * 1024^k, and
\* parseBytes of a string with no leading number is 0.
UnitParser ==
  (calc.pc = "out" /\ calc.fn = "parseBytes") =>
    /\ WellFormed(calc.arg) => SameNumber(calc.out, BytesOf(calc.arg))
    /\ ~IsDigit(calc.arg, 1) => calc.out = Zero

\* C25: the memLimit computed for a limit token <number><suffix>[i][B] is the
\* unit parser's byte count for it, and a token with no leading number gives
\* null.
MemoryLimitConversion ==
  (calc.pc = "out" /\ calc.fn = "memLimit") =>
    /\ WellFormed(calc.arg) => SameNumber(calc.out, ParseBytes(calc.arg))
    /\ ~IsDigit(calc.arg, 1) => calc.out = Null

\* container id, CPU%, used / limit, memory%, netIn / netOut, blockRead /
\* blockWrite
ExpectedTokens == 12

\* C24: a stats line with fewer than the expected number of tokens gives no
\* sample.
StatsLineRejection ==
  (calc.pc = "out" /\ calc.fn = "metricData" /\ Len(calc.arg) < ExpectedTokens) =>
    ~calc.out.sample

\* ---- the security score of the dashboard and of the security report ------

\* the clock counts days and every row was written on a whole day, so a row
\* is at or after Date.now() - hours when it is at or after this day
Since(hours) == now - (hours \div 24)

\* Math.max(0, Math.min(100, x))
Clamp(x) == IF x < 0 THEN 0 ELSE IF x > 100 THEN 100 ELSE x

\* GET /api/dashboard: the unresolved CRITICAL alerts of all time and the
\* failed scans since the start of the window
DashboardScore(hours) ==
  LET criticalAlerts ==
        Cardinality({a \in alerts : a.severity = "CRITICAL" /\ ~a.resolved})
      failedScans ==
        Cardinality({s \in scans : s.status = "failed" /\ s.timestamp >= Since(hours)})
  IN Clamp(100 - (criticalAlerts * 10) - (failedScans * 5))

\* POST /api/reports, reportType security: the alerts of the time range, of
\* which the unresolved CRITICAL and HIGH ones count
ReportScore(timeRange) ==
  LET hours == CASE timeRange = "1h" -> 1
                  [] timeRange = "24h" -> 24
                  [] timeRange = "7d" -> 7 * 24
                  [] timeRange = "30d" -> 30 * 24
      found == {a \in alerts : a.timestamp >= Since(hours) /\ a.timestamp <= now}
  IN Clamp(100 - (Cardinality({a \in found : a.severity = "CRITICAL" /\ ~a.resolved}) * 10)
               - (Cardinality({a \in found : a.severity = "HIGH" /\ ~a.resolved}) * 5))

ApplyDashboardScore ==
  /\ calc.fn = "dashboard"
  /\ Return(Quotient(DashboardScore(calc.arg.hours), 1))

ApplyReportScore ==
  /\ calc.fn = "securityReport"
  /\ Return(Quotient(ReportScore(calc.arg.timeRange), 1))

\* a store with up to MaxCritical unresolved CRITICAL alerts, up to MaxHigh
\* unresolved HIGH alerts and up to MaxFailed failed scans, all written on
\* one day, beside rows that neither computation counts: a resolved alert of
\* either severity, a MEDIUM alert and a completed scan

InitScore ==
  /\ now = 1
  /\ docker = [r \in RuntimeIds |-> IF r = "a" THEN "running" ELSE "absent"]
  /\ containers = {SeedContainer}
  /\ metrics = {}
  /\ \E c \in 0..MaxCritical, h \in 0..MaxHigh, f \in 0..MaxFailed, t \in SeedTimes :
       /\ alerts =
            {[id |-> i, severity |-> "CRITICAL", source |-> "trivy", containerId |-> 1,
              resolved |-> i > 100, timestamp |-> t] : i \in (101 - c)..101}
              \cup {[id |-> i, severity |-> "HIGH", source |-> "trivy", containerId |-> 1,
                      resolved |-> i > 200, timestamp |-> t] : i \in (201 - h)..201}
              \cup {[id |-> 300, severity |-> "MEDIUM", source |-> "trivy", containerId |-> 1,
                      resolved |-> FALSE, timestamp |-> t]}
       /\ scans =
            {[id |-> i, containerId |-> 1, status |-> IF i > 400 THEN "completed" ELSE "failed",
              timestamp |-> t] : i \in (401 - f)..401}
  /\ nextId = 2
  /\ sync = [p \in Reconcilers |-> SyncIdle]
  /\ collect = CollectIdle
  /\ jobs = {}
  /\ sweep = SweepIdle
  /\ mc = McIdle
  /\ cycle = [k \in Executions |-> CycleIdle]
  /\ host = 0
  /\ gateway = GatewayIdle
  /\ calc \in {[pc |-> "in", fn |-> "dashboard", arg |-> [hours |-> hours], out |-> Null] :
                 hours \in {1, 24, 48}}
         \cup {[pc |-> "in", fn |-> "securityReport", arg |-> [timeRange |-> timeRange], out |-> Null] :
                 timeRange \in {"1h", "24h", "7d", "30d"}}
  /\ proc = ProcIdle

SpecScore == InitScore /\ [][ApplyDashboardScore \/ ApplyReportScore]_vars

\* ---- properties of the security score ----------------------------------

UnresolvedOf(severity) ==
  Cardinality({a \in alerts : a.severity = severity /\ ~a.resolved})

\* C27: a security score that has been computed, by the dashboard or by the
\* security report, is 100 less 10 for every unresolved CRITICAL alert and 5
\* for every unresolved HIGH alert of the store, kept within 0 and 100.
SecurityScore ==
  (calc.pc = "out" /\ calc.fn \in {"dashboard", "securityReport"}) =>
    calc.out.num = Clamp(100 - 10 * UnresolvedOf("CRITICAL") - 5 * UnresolvedOf("HIGH"))

\* ---- the scheduled mode over the weeks ----------------------------------

\* 7 * 24 * 60 * 60 * 1000 in clock units, a whole number of intervals
Week == MaxWeek * CollectionInterval

\* const { days = 30, dryRun = false } of POST /api/cleanup
DefaultDays == 30

\* Date.now() % (7 * 24 * 60 * 60 * 1000) < this.collectionInterval
Weekly == proc.phase < CollectionInterval

\* one clock unit passes; an interval that has elapsed calls its callback
\* before more time passes
Elapse ==
  /\ proc.timers > 0 => proc.until > 0
  /\ proc' = [proc EXCEPT !.phase = (@ + 1) % Week,
                          !.until = IF @ > 0 THEN @ - 1 ELSE @]
  /\ UNCHANGED <<now, docker, containers, metrics, alerts, scans, nextId, sync, collect,
                 jobs, sweep, mc, cycle, host, gateway, calc>>

\* setInterval calls the callback when collectionInterval has elapsed since
\* it was installed or last called it
TimerFireOnTime ==
  /\ proc.timers > 0
  /\ proc.until = 0
  /\ Free(FreeSlot)
  /\ cycle' = [cycle EXCEPT ![FreeSlot] = Begin("periodic")]
  /\ proc' = [proc EXCEPT !.until = CollectionInterval]
  /\ UNCHANGED <<now, docker, containers, metrics, alerts, scans, nextId, sync, collect,
                 jobs, sweep, mc, host, gateway, calc>>

\* the days on which the rows of the store were written: 31, 11 and 0 days
\* before the collector is started
WeeklyTimes == {0, DefaultDays - CleanupDays - 3, DefaultDays + 1}

\* node metrics-collector --schedule at any time of the week, on a host
\* without /proc/stat, against a store with a metric, a resolved alert and a
\* completed scan of each of those days, of a container that is stopped
InitWeekly ==
  /\ now = DefaultDays + 1
  /\ docker = [r \in RuntimeIds |-> IF r = "a" THEN "stopped" ELSE "absent"]
  /\ containers = {[id |-> 1, containerId |-> "a", status |-> "stopped"]}
  /\ metrics = {[id |-> 10 + t, containerId |-> 1, timestamp |-> t] : t \in WeeklyTimes}
  /\ alerts = {[id |-> 50 + t, severity |-> "HIGH", source |-> "trivy", containerId |-> 1,
                resolved |-> TRUE, timestamp |-> t] : t \in WeeklyTimes}
  /\ scans = {[id |-> 90 + t, containerId |-> 1, status |-> "completed", timestamp |-> t] :
                t \in WeeklyTimes}
  /\ nextId = 2
  /\ sync = [p \in Reconcilers |-> SyncIdle]
  /\ collect = CollectIdle
  /\ jobs = {}
  /\ sweep = SweepIdle
  /\ mc = [McIdle EXCEPT !.procStat = FALSE]
  /\ cycle = [k \in Executions |-> CycleIdle]
  /\ host = 0
  /\ gateway = GatewayIdle
  /\ calc = CalcIdle
  /\ proc \in {[ProcIdle EXCEPT !.phase = p] : p \in 0..(Week - 1)}

\* the steps of a round when no command and no fetch fails; the weekly
\* cleanup is decided by the clock
WeeklyStep(k) ==
  \/ GetCPUUsage(k)
  \/ CollectSystemDf(k, FALSE)
  \/ \E threw \in BOOLEAN : CollectSystemCreate(k, threw)
  \/ CollectSystemFetch(k, FALSE)
  \/ CycleSyncFetch(k, FALSE)
  \/ CycleSyncUpsert(k)
  \/ CycleSyncDelete(k)
  \/ CycleFindMany(k)
  \/ CycleReturn(k, Weekly)
  \/ CycleCleanup(k, FALSE)

NextWeekly ==
  \/ Start
  \/ Elapse
  \/ TimerFireOnTime
  \/ \E k \in Executions : WeeklyStep(k)

\* time passes, intervals that have elapsed call back and the event loop runs
\* every continuation that is ready
SpecWeekly ==
  /\ InitWeekly /\ [][NextWeekly]_vars
  /\ WF_vars(Start) /\ WF_vars(Elapse) /\ WF_vars(TimerFireOnTime)
  /\ \A k \in Executions : WF_vars(WeeklyStep(k))

\* ---- properties of the scheduled mode over the weeks ---------------------

\* cleanupOldMetrics has been called by some round
CleanupInvoked == \E k \in Executions : cycle[k].pc = "cleanup"
\* the step in which a called cleanupOldMetrics does its work
CleanupStep == \E k \in Executions : cycle[k].pc = "cleanup" /\ cycle'[k].pc = "done"
\* what a sweep with the default horizon leaves of the store
DefaultSweep ==
  /\ metrics' = MetricsDeleteMany(metrics, now - DefaultDays)
  /\ alerts' = AlertsDeleteMany(alerts, now - DefaultDays)
  /\ scans' = ScansDeleteMany(scans, now - DefaultDays)

\* C28: a collector in scheduled mode calls the retention cleanup again and
\* again, and every call leaves of the store what a sweep with the default
\* horizon of the sweep entry point leaves.
PeriodicRetention ==
  /\ []<>CleanupInvoked
  /\ [][CleanupStep => DefaultSweep]_vars

\* ---- start() and stop() on one collector ---------------------------------

\* stop(): clears the interval this.intervalId holds, if it holds one, sets
\* running to false and awaits prisma.$disconnect()
Stop ==
  /\ proc.stop = "none"
  /\ mc' = [mc EXCEPT !.intervalId = FALSE, !.running = FALSE]
  /\ proc' = [proc EXCEPT !.timers = IF mc.intervalId THEN @ - 1 ELSE @,
                          !.stop = "disconnect"]
  /\ UNCHANGED <<now, docker, containers, metrics, alerts, scans, nextId, sync, collect,
                 jobs, sweep, cycle, host, gateway, calc>>

\* prisma.$disconnect() has settled and stop() returns; running is still
\* false unless start() was called in the meantime
StopReturn ==
  /\ proc.stop = "disconnect"
  /\ proc' = [proc EXCEPT !.stop = "none", !.stopped = ~mc.running,
                          !.disconnected = TRUE]
  /\ UNCHANGED <<now, docker, containers, metrics, alerts, scans, nextId, sync, collect,
                 jobs, sweep, mc, cycle, host, gateway, calc>>

\* start() is called while fewer than MaxTimers intervals are active
StartAgain == proc.timers < MaxTimers /\ Start

\* the steps of a round on a host that runs no container
LifecycleStep(k) ==
  \/ GetCPUUsage(k)
  \/ GetCPUUsageTimer(k)
  \/ \E threw \in BOOLEAN : CollectSystemDf(k, threw)
  \/ \E threw \in BOOLEAN : CollectSystemCreate(k, threw)
  \/ \E threw \in BOOLEAN : CollectSystemFetch(k, threw)
  \/ \E threw \in BOOLEAN : CycleSyncFetch(k, threw)
  \/ CycleSyncDelete(k)
  \/ CycleFindMany(k)
  \/ \E weekly \in BOOLEAN : CycleReturn(k, weekly)
  \/ \E threw \in BOOLEAN : CycleCleanup(k, threw)

\* a collector constructed against an empty database on a host that runs no
\* container, with or without a readable /proc/stat
InitLifecycle ==
  /\ InitCycle
  /\ docker = [r \in RuntimeIds |-> "absent"]

\* a caller that calls start() and stop() whenever it likes
NextLifecycle ==
  \/ StartAgain
  \/ Stop
  \/ StopReturn
  \/ TimerFire
  \/ \E k \in Executions : LifecycleStep(k)

SpecLifecycle == InitLifecycle /\ [][NextLifecycle]_vars

\* ---- properties of start() and stop() ------------------------------------

\* start() has been called and has not installed its interval yet
StartInProgress == \E k \in Executions : InFlight(k) /\ cycle[k].kind = "eager"
\* the step begins a collection round
CycleBegins == \E k \in Executions : Free(k) /\ cycle'[k].pc = "cpu"
\* the step is a call of start() that gets past its guard
StartCalled == ~mc.running /\ mc'.running

\* C29: however calls of start() and stop() on one collector interleave, at
\* most one interval is active, running is true exactly when an interval is
\* active or a start() is in progress, and once a stop() has returned no
\* round begins unless start() is called.
TimerLifecycle ==
  /\ [](proc.timers <= 1)
  /\ [](mc.running <=> (proc.timers > 0 \/ StartInProgress))
  /\ [][(proc.stopped /\ CycleBegins) => StartCalled]_vars

\* ---- SIGINT and SIGTERM ---------------------------------------------------

\* the handler of either signal: it constructs a MetricsCollector of its own,
\* whose intervalId is undefined and whose running is false, and calls its
\* stop(), which clears nothing and awaits prisma.$disconnect()
Signal(sig) ==
  /\ proc.signal = "none"
  /\ proc' = [proc EXCEPT !.signal = sig]
  /\ UNCHANGED <<now, docker, containers, metrics, alerts, scans, nextId, sync, collect,
                 jobs, sweep, mc, cycle, host, gateway, calc>>

\* the disconnect has settled, stop() returns and the handler calls
\* process.exit(0)
SignalExit ==
  /\ proc.signal # "none"
  /\ ~proc.exited
  /\ proc' = [proc EXCEPT !.disconnected = TRUE, !.exited = TRUE]
  /\ UNCHANGED <<now, docker, containers, metrics, alerts, scans, nextId, sync, collect,
                 jobs, sweep, mc, cycle, host, gateway, calc>>

\* main has called start() by the time a signal can be delivered
SignalDelivered == mc.running /\ \E sig \in {"SIGINT", "SIGTERM"} : Signal(sig)

\* the steps of the collector in scheduled mode until process.exit has been
\* called
StartAlive == ~proc.exited /\ Start
TimerFireAlive == ~proc.exited /\ TimerFire
LifecycleStepAlive(k) == ~proc.exited /\ LifecycleStep(k)

NextShutdown ==
  \/ StartAlive
  \/ TimerFireAlive
  \/ \E k \in Executions : LifecycleStepAlive(k)
  \/ SignalDelivered
  \/ SignalExit

SpecShutdown == InitLifecycle /\ [][NextShutdown]_vars

\* ---- properties of SIGINT and SIGTERM -------------------------------------

\* C30: when the process has exited after a signal, no interval of the
\* collector was left active and the persistence client was disconnected, and
\* no round begins once the handler of the signal has started.
CleanShutdown ==
  /\ [](proc.exited => (proc.timers = 0 /\ proc.disconnected))
  /\ [][(proc.signal # "none") => ~CycleBegins]_vars

====
